---- MODULE Spec2Model ----
(***************************************************************************)
(* Model of the Google Maps scraper: the crawler run (request queue, the   *)
(* pool of execution contexts, the SEARCH and DETAIL branches of           *)
(* requestHandler) and the CAPTCHA guard (detectCaptcha / solveCaptcha).   *)
(***************************************************************************)
EXTENDS Integers, Sequences, FiniteSets, TLC

(***************************************************************************)
(* Bounds of the model.                                                    *)
(***************************************************************************)
NumCtx == 3            \* execution contexts the platform could start
MaxSearches == 2       \* input.searches has 1..MaxSearches entries
MaxPlacesCfg == 2      \* input.maxPlaces ranges over absent, 0..MaxPlacesCfg
MaxConcurrencyCfg == 3 \* input.maxConcurrency ranges over absent, 0..MaxConcurrencyCfg
MaxRetriesCfg == 2     \* captchaConfiguration.maxRetries: absent, 0..MaxRetriesCfg
NumUrls == 2           \* distinct listing urls the results page can expose
MaxAnchors == 2        \* anchors one extraction round can return
NumTokens == 2         \* distinct tokens the solver can answer with
MaxPageReviews == 2    \* review elements one extraction round can find on the page
MaxReviewsCfg == 2     \* maxReviews ranges over absent, 0..MaxReviewsCfg
MaxCountryLen == 2     \* apifyProxyCountry: strings of 0..MaxCountryLen letters
MaxImgs == 3           \* img elements on a place page
MaxPhotos == 3         \* photoUrls passed to downloadPhotos
MaxWords == 3          \* words of the text given to extractEmails
MaxLinks == 3          \* a[href] elements on a website page
MaxRetriesUnit == 4    \* maxRetries of a solveCaptcha call on its own: absent, 0..MaxRetriesUnit
NumItems == 2          \* DETAIL items of a run that downloads photos
MaxItemPhotos == 2     \* photos extractPhotoUrls finds on the page of one such item

(***************************************************************************)
(* Constants of the program.                                               *)
(***************************************************************************)
DefaultMaxPlaces == 100
maxScrollAttempts == 20
ConcurrencyCeiling == 2
DefaultMaxRetries == 3
BaseDelayMs == 2000
DefaultMaxReviews == 50        \* input.maxReviews || 50 in requestHandler
DefaultOptionMaxReviews == 100 \* { maxReviews = 100 } in scrollAndExtractReviews
maxNoNewReviews == 3
KeyPrefixLen == 50             \* r.text?.substring(0, 50)

Absent == -1           \* encodes an input field that is undefined
Null == "null"

Ctx == 1..NumCtx
Urls == 1..NumUrls
NonListingHref == 0    \* an href matched by the selector but without '/maps/place/'
Hrefs == {NonListingHref} \cup Urls
Tokens == 1..NumTokens

Min(a, b) == IF a < b THEN a ELSE b

\* JavaScript `v || d` on a number that may be undefined: 0 and undefined are falsy.
OrDefault(v, d) == IF v = Absent \/ v = 0 THEN d ELSE v

\* JavaScript destructuring default `{ v = d }`: only undefined takes the default.
DestructDefault(v, d) == IF v = Absent THEN d ELSE v

RECURSIVE SelectSeq2(_, _)
\* s.filter(x => x \in keep), order preserved
SelectSeq2(s, keep) ==
    IF s = <<>> THEN <<>>
    ELSE IF Head(s) \in keep THEN <<Head(s)>> \o SelectSeq2(Tail(s), keep)
         ELSE SelectSeq2(Tail(s), keep)

Range(s) == { s[i] : i \in DOMAIN s }

\* number of positions of s holding x
Count(s, x) == Cardinality({ i \in DOMAIN s : s[i] = x })

\* all sequences over S of length 0..n
SeqsUpTo(S, n) == UNION { [1..k -> S] : k \in 0..n }

\* s.slice(0, n)
Slice(s, n) == SubSeq(s, 1, Min(n, Len(s)))

VARIABLES
    input,           \* the actor input (configuration of the run)
    queue,           \* the crawler's request queue
    sink,            \* Dataset: the pushed PlaceRecords, in push order
    cur,             \* cur[c]: the request context c is handling
    pc,              \* pc[c]: position of context c inside requestHandler
    places,          \* places[c]: accumulated listings of a SEARCH item
    scrollAttempts,  \* scrollAttempts[c]
    enqIdx,          \* enqIdx[c]: position of the enqueue loop in the slice
    seenRounds,      \* history: seenRounds[c][u], in how many rounds (0, 1, 2 = several) u was returned
    attempt,         \* attempt[c]: loop counter of solveCaptcha
    solveLog,        \* solveLog[c]: solver answers of the current solveCaptcha call
    solveResult,     \* solveResult[c]: what the last solveCaptcha call returned or threw
    pageReads,       \* history: pageReads[c], what the current solveCaptcha call read from the page
    maxReviews,      \* maxReviews[c]: the limit the running scrollAndExtractReviews call got
    allReviews,      \* allReviews[c]: the reviews accumulated by the call, in order
    previousReviewCount,  \* previousReviewCount[c]
    noNewReviewsCount,    \* noNewReviewsCount[c]
    reviewHist,      \* history: reviewHist[c], per review key in how many rounds (0, 1, 2 =
                     \*   several) it was rendered, how many rounds in a row (up to 3) added
                     \*   nothing, and the last answer of the scrollability test
    placeData,       \* placeData[c]: the record a DETAIL item is building
    enrich,          \* history: enrich[c], what base extraction read, which pipelines threw,
                     \*          whether detectCaptcha found a challenge on the item's page,
                     \*          how often detectCaptcha was called for the item
    added,           \* history: every request ever added to the queue (a set)
    taken,           \* history: ids of the requests taken from the queue
    handled,         \* history: ids of the requests whose handler returned
    failures,        \* history: [id, error] of the requests whose handler threw
    audit,           \* history: per pushed record, the base data and failed pipelines
    runState,        \* "starting", "created" (proxy and crawler set up), "running" until
                     \*   crawler.run() resolves, then "ended"; "failed" when main threw
    issuerCalls,     \* the arguments of the calls to Actor.createProxyConfiguration
    proxyConfiguration,  \* what createProxyConfiguration returned or threw
    utilCall,        \* [fn, arg, placeId]: the call of a utility function and its arguments
    utilReturn,      \* what that call returned
    photoIndex,      \* the loop variable i of downloadPhotos
    storedPhotos,    \* storedPhotos of downloadPhotos
    fetchCalls,      \* the urls fetch was called with, in call order
    setValueCalls,   \* the calls of Actor.setValue: [key, ok], in call order
    blobStore,       \* the default key-value store: key -> [item, url] of the last setValue
    downloads        \* per DETAIL item of a run that downloads photos: its loadedUrl, its
                     \*   photoUrls, the loop variable i and storedPhotos of its
                     \*   downloadPhotos call, "running" until placeData.photos is assigned

vars == << input, queue, sink, cur, pc, places, scrollAttempts, enqIdx, seenRounds, attempt,
           solveLog, solveResult, pageReads, maxReviews, allReviews, previousReviewCount,
           noNewReviewsCount, reviewHist, placeData, enrich, added, taken, handled,
           failures, audit, runState, issuerCalls, proxyConfiguration, utilCall, utilReturn,
           photoIndex, storedPhotos, fetchCalls, setValueCalls, blobStore, downloads >>

proxyVars == << issuerCalls, proxyConfiguration >>
utilVars == << utilCall, utilReturn, photoIndex, storedPhotos, fetchCalls, setValueCalls,
              blobStore, downloads >>

(***************************************************************************)
(* ProxyProvisioner: createProxyConfiguration.  A string is the sequence   *)
(* of its characters.                                                      *)
(***************************************************************************)
UpperLetters == << "A", "B", "C", "D", "E", "F", "G", "H", "I", "J", "K", "L", "M", "N", "O", "P", "Q", "R", "S", "T", "U", "V", "W", "X", "Y", "Z" >>
LowerLetters == << "a", "b", "c", "d", "e", "f", "g", "h", "i", "j", "k", "l", "m", "n", "o", "p", "q", "r", "s", "t", "u", "v", "w", "x", "y", "z" >>
Letters == Range(UpperLetters) \cup Range(LowerLetters)

\* String.prototype.toUpperCase, on one character and on a string
ToUpperCaseChar(ch) ==
    IF \E i \in DOMAIN LowerLetters : LowerLetters[i] = ch
    THEN UpperLetters[CHOOSE i \in DOMAIN LowerLetters : LowerLetters[i] = ch]
    ELSE ch

ToUpperCase(str) == [i \in DOMAIN str |-> ToUpperCaseChar(str[i])]

\* const VALID_COUNTRY_CODES = new Set([...]) (the Set drops the repeated entries)
VALID_COUNTRY_CODES ==
    {
      <<"U", "S">>, <<"G", "B">>, <<"D", "E">>, <<"F", "R">>, <<"C", "A">>, <<"A", "U">>,
      <<"J", "P">>, <<"I", "T">>, <<"E", "S">>, <<"N", "L">>, <<"B", "E">>, <<"C", "H">>,
      <<"A", "T">>, <<"S", "E">>, <<"N", "O">>, <<"D", "K">>, <<"F", "I">>, <<"P", "L">>,
      <<"C", "Z">>, <<"I", "E">>, <<"P", "T">>, <<"G", "R">>, <<"H", "U">>, <<"R", "O">>,
      <<"B", "G">>, <<"H", "R">>, <<"S", "K">>, <<"S", "I">>, <<"L", "T">>, <<"L", "V">>,
      <<"E", "E">>, <<"L", "U">>, <<"M", "T">>, <<"C", "Y">>, <<"I", "S">>, <<"L", "I">>,
      <<"M", "C">>, <<"A", "D">>, <<"S", "M">>, <<"V", "A">>, <<"B", "R">>, <<"M", "X">>,
      <<"A", "R">>, <<"C", "L">>, <<"C", "O">>, <<"P", "E">>, <<"V", "E">>, <<"E", "C">>,
      <<"B", "O">>, <<"P", "Y">>, <<"U", "Y">>, <<"G", "Y">>, <<"S", "R">>, <<"G", "F">>,
      <<"F", "K">>, <<"Z", "A">>, <<"E", "G">>, <<"N", "G">>, <<"K", "E">>, <<"G", "H">>,
      <<"T", "N">>, <<"D", "Z">>, <<"M", "A">>, <<"S", "N">>, <<"C", "I">>, <<"C", "M">>,
      <<"A", "O">>, <<"M", "Z">>, <<"Z", "W">>, <<"B", "W">>, <<"N", "A">>, <<"Z", "M">>,
      <<"M", "W">>, <<"U", "G">>, <<"T", "Z">>, <<"E", "T">>, <<"S", "D">>, <<"S", "O">>,
      <<"D", "J">>, <<"E", "R">>, <<"S", "S">>, <<"C", "F">>, <<"T", "D">>, <<"N", "E">>,
      <<"M", "L">>, <<"B", "F">>, <<"M", "R">>, <<"G", "M">>, <<"G", "N">>, <<"G", "W">>,
      <<"S", "L">>, <<"L", "R">>, <<"T", "G">>, <<"B", "J">>, <<"I", "N">>, <<"C", "N">>,
      <<"K", "R">>, <<"T", "H">>, <<"V", "N">>, <<"P", "H">>, <<"I", "D">>, <<"M", "Y">>,
      <<"S", "G">>, <<"B", "D">>, <<"P", "K">>, <<"L", "K">>, <<"M", "M">>, <<"K", "H">>,
      <<"L", "A">>, <<"M", "N">>, <<"N", "P">>, <<"B", "T">>, <<"M", "V">>, <<"B", "N">>,
      <<"T", "L">>, <<"F", "J">>, <<"P", "G">>, <<"S", "B">>, <<"V", "U">>, <<"N", "C">>,
      <<"P", "F">>, <<"W", "S">>, <<"T", "O">>, <<"T", "V">>, <<"K", "I">>, <<"N", "R">>,
      <<"P", "W">>, <<"F", "M">>, <<"M", "H">>, <<"N", "Z">>, <<"R", "U">>, <<"U", "A">>,
      <<"B", "Y">>, <<"M", "D">>, <<"G", "E">>, <<"A", "M">>, <<"A", "Z">>, <<"K", "Z">>,
      <<"U", "Z">>, <<"T", "M">>, <<"T", "J">>, <<"K", "G">>, <<"A", "F">>, <<"I", "R">>,
      <<"I", "Q">>, <<"S", "A">>, <<"A", "E">>, <<"O", "M">>, <<"Y", "E">>, <<"J", "O">>,
      <<"L", "B">>, <<"S", "Y">>, <<"I", "L">>, <<"P", "S">>, <<"T", "R">>, <<"A", "L">>,
      <<"M", "K">>, <<"R", "S">>, <<"M", "E">>, <<"B", "A">>, <<"X", "K">>
    }

Undefined == << "undefined" >>   \* an option that was not given

\* a string option is truthy unless it is undefined or ''
Truthy(str) == str # Undefined /\ str # <<>>

\* createProxyConfiguration() / input.proxyConfiguration || {}
EmptyOptions ==
    [useApifyProxy |-> "undefined", apifyProxyGroups |-> Undefined,
     apifyProxyCountry |-> Undefined]

GroupLists == { Undefined, <<>>, << "DATACENTER" >> }

\* the options createProxyConfiguration is called with: every country string
\* of up to MaxCountryLen letters
ProxyOptions ==
    [useApifyProxy : {"undefined", "true", "false"},
     apifyProxyGroups : GroupLists,
     apifyProxyCountry : {Undefined} \cup SeqsUpTo(Letters, MaxCountryLen)]

\* the proxyConfiguration inputs explored for whole runs
RunProxyOptions ==
    [useApifyProxy : {"undefined", "true", "false"},
     apifyProxyGroups : {Undefined},
     apifyProxyCountry : {Undefined, << "Z", "Z" >>, << "u", "s" >>}]

NoProxyResult == [status |-> "none", error |-> ""]

\* createProxyConfiguration with the country forwarded as it was given
CreateProxyConfigurationAsGiven(options) ==
    LET useApifyProxy == IF options.useApifyProxy = "undefined" THEN "true"
                         ELSE options.useApifyProxy
        apifyProxyGroups == IF options.apifyProxyGroups = Undefined THEN << "RESIDENTIAL" >>
                            ELSE options.apifyProxyGroups
        apifyProxyCountry == options.apifyProxyCountry
    IN  IF Truthy(apifyProxyCountry)
            /\ ToUpperCase(apifyProxyCountry) \notin VALID_COUNTRY_CODES
        THEN [status |-> "throws", error |-> "Invalid country code", calls |-> <<>>]
        ELSE IF useApifyProxy = "false"
        THEN [status |-> "undefined", error |-> "", calls |-> <<>>]
        ELSE [status |-> "issuer", error |-> "",
              calls |-> << [groups |-> apifyProxyGroups,
                            countryCode |-> apifyProxyCountry] >>]

\* createProxyConfiguration with the country validated only when a proxy is requested
CreateProxyConfigurationLateCheck(options) ==
    LET useApifyProxy == IF options.useApifyProxy = "undefined" THEN "true"
                         ELSE options.useApifyProxy
        apifyProxyGroups == IF options.apifyProxyGroups = Undefined THEN << "RESIDENTIAL" >>
                            ELSE options.apifyProxyGroups
        apifyProxyCountry == options.apifyProxyCountry
    IN  IF useApifyProxy = "false"
        THEN [status |-> "undefined", error |-> "", calls |-> <<>>]
        ELSE IF Truthy(apifyProxyCountry)
            /\ ToUpperCase(apifyProxyCountry) \notin VALID_COUNTRY_CODES
        THEN [status |-> "throws", error |-> "Invalid country code", calls |-> <<>>]
        ELSE [status |-> "issuer", error |-> "",
              calls |-> << [groups |-> apifyProxyGroups,
                            countryCode |-> IF Truthy(apifyProxyCountry)
                                            THEN ToUpperCase(apifyProxyCountry)
                                            ELSE Undefined] >>]

\* createProxyConfiguration that always asks for the RESIDENTIAL group
CreateProxyConfigurationFixedGroups(options) ==
    LET useApifyProxy == IF options.useApifyProxy = "undefined" THEN "true"
                         ELSE options.useApifyProxy
        apifyProxyCountry == options.apifyProxyCountry
    IN  IF Truthy(apifyProxyCountry)
            /\ ToUpperCase(apifyProxyCountry) \notin VALID_COUNTRY_CODES
        THEN [status |-> "throws", error |-> "Invalid country code", calls |-> <<>>]
        ELSE IF useApifyProxy = "false"
        THEN [status |-> "undefined", error |-> "", calls |-> <<>>]
        ELSE [status |-> "issuer", error |-> "",
              calls |-> << [groups |-> << "RESIDENTIAL" >>,
                            countryCode |-> IF Truthy(apifyProxyCountry)
                                            THEN ToUpperCase(apifyProxyCountry)
                                            ELSE Undefined] >>]

\* createProxyConfiguration(options): what it does up to its return statement.
\* status "throws": the invalid-country error; "undefined": returns undefined;
\* "issuer": returns Actor.createProxyConfiguration(proxyConfig), whose
\* arguments are in calls (countryCode is Undefined when the key is not set)
CreateProxyConfiguration(options) ==
    LET useApifyProxy == IF options.useApifyProxy = "undefined" THEN "true"
                         ELSE options.useApifyProxy
        apifyProxyGroups == IF options.apifyProxyGroups = Undefined THEN << "RESIDENTIAL" >>
                            ELSE options.apifyProxyGroups
        apifyProxyCountry == options.apifyProxyCountry
    IN  IF Truthy(apifyProxyCountry)
            /\ ToUpperCase(apifyProxyCountry) \notin VALID_COUNTRY_CODES
        THEN [status |-> "throws", error |-> "Invalid country code", calls |-> <<>>]
        ELSE IF useApifyProxy = "false"
        THEN [status |-> "undefined", error |-> "", calls |-> <<>>]
        ELSE [status |-> "issuer", error |-> "",
              calls |-> << [groups |-> apifyProxyGroups,
                            countryCode |-> IF Truthy(apifyProxyCountry)
                                            THEN ToUpperCase(apifyProxyCountry)
                                            ELSE Undefined] >>]

\* the outcome of the call once the issuer has settled: the issuer resolves
\* with a handle or rejects
ProxyResult(r, issuerOk) ==
    [status |-> IF r.status = "issuer" THEN (IF issuerOk THEN "handle" ELSE "issuerThrows")
                ELSE r.status,
     error |-> r.error]

(***************************************************************************)
(* Requests, records and the values the environment can produce.           *)
(***************************************************************************)
NoRequest == [id |-> 0, label |-> "NONE", url |-> 0, parent |-> 0]

\* crawler.run(input.searches.map(...)): one SEARCH request per configured search
SearchRequest(s) == [id |-> s, label |-> "SEARCH", url |-> 0, parent |-> 0]

\* the request of crawler.addRequests([{ url: place.url, userData: { label: 'DETAIL' } }])
DetailRequest(i, u, s) == [id |-> i, label |-> "DETAIL", url |-> u, parent |-> s]

\* identity of the i-th request a SEARCH item s adds (the queue keeps every request apart)
DetailId(s, i) == s * 100 + i

Inputs ==
    [ numSearches : 1..MaxSearches,
      maxPlaces : {Absent} \cup (0..MaxPlacesCfg),
      maxConcurrency : {Absent} \cup (0..MaxConcurrencyCfg),
      antiCaptchaApiKey : BOOLEAN,
      maxRetries : {Absent} \cup (0..MaxRetriesCfg),
      includeReviews : BOOLEAN,
      maxReviews : {Absent} \cup (0..MaxReviewsCfg),
      downloadPhotos : BOOLEAN,
      extractContactInfo : BOOLEAN,
      proxyConfiguration : RunProxyOptions ]

\* the runs explored for the pool: every concurrency and CAPTCHA setting
RunInputs ==
    { in \in Inputs : /\ in.maxPlaces = 1 /\ in.proxyConfiguration = EmptyOptions /\ in.maxReviews = 1
                      /\ in.includeReviews /\ in.downloadPhotos /\ in.extractContactInfo
                      /\ \/ ~in.antiCaptchaApiKey /\ in.maxRetries = 1
                         \/ in.antiCaptchaApiKey /\ in.maxConcurrency = ConcurrencyCeiling }

\* the runs explored under fairness: one context or two, with and without a solver
FairInputs ==
    { in \in RunInputs : in.maxRetries = 1 /\ in.maxConcurrency \in {1, ConcurrencyCeiling} }

\* the runs explored for listing discovery: one search, every maxPlaces
SearchInputs ==
    { in \in Inputs : /\ in.numSearches = 1 /\ in.maxConcurrency = 1
                      /\ in.maxRetries = 1 /\ in.proxyConfiguration = EmptyOptions /\ in.maxReviews = 1
                      /\ ~in.includeReviews /\ ~in.downloadPhotos /\ ~in.extractContactInfo }

\* the runs explored for the DETAIL branch: one listing, every enrichment switch
DetailInputs ==
    { in \in Inputs : /\ in.numSearches = 1 /\ in.maxConcurrency = 1
                      /\ in.maxPlaces = 1 /\ in.maxRetries = 1
                      /\ in.proxyConfiguration = EmptyOptions /\ in.maxReviews = 1 }

\* what one page.$$eval('a[href*="maps/place"]') round can return: the hrefs of the anchors
Batches == SeqsUpTo(Hrefs, MaxAnchors)

\* answers of one Actor.call + dataset read + token injection of solveCaptcha
Responses ==
    { [kind |-> k, tok |-> 0] : k \in {"callThrows", "noItems", "noSolution", "noToken"} }
    \cup { [kind |-> k, tok |-> t] : k \in {"token", "injectThrows"}, t \in Tokens }

\* what page.evaluate of the DETAIL branch can read from a detail page
BasicDatas ==
    { [title |-> "t", address |-> "a", phone |-> "p", website |-> "w",
       rating |-> "4.5", reviewCount |-> "10", gps |-> "gps"],
      [title |-> "t", address |-> Null, phone |-> "p", website |-> Null,
       rating |-> Null, reviewCount |-> Null, gps |-> Null],
      [title |-> Null, address |-> Null, phone |-> Null, website |-> Null,
       rating |-> Null, reviewCount |-> Null, gps |-> Null] }

Unset == <<-1>>     \* a list field of placeData that was never assigned
NoBase == [title |-> Null, address |-> Null, phone |-> Null, website |-> Null,
           rating |-> Null, reviewCount |-> Null, gps |-> Null]
NoPlaceData == [base |-> NoBase, url |-> 0, scrapedAt |-> Null, reviews |-> Unset,
                photos |-> Unset, contactInfo |-> "unset"]
NoEnrich == [base |-> NoBase, failed |-> {}, ran |-> <<>>, sitePage |-> "none",
             challenged |-> FALSE, checks |-> 0]

\* null in a string field of a review
NullString == << "null" >>

LongPrefix == [i \in 1..KeyPrefixLen |-> "x"]

\* the review elements a detail page can render, as extractReviewData returns
\* them; a review in the state is its index in this list.  Reviews 1 and 2
\* have the same author and texts that differ only after character 50;
\* reviews 4 and 5 differ in author and in text, with a '-' in either.
ReviewPool ==
    << [author |-> << "A" >>, text |-> LongPrefix \o << "a" >>],
       [author |-> << "A" >>, text |-> LongPrefix \o << "b" >>],
       [author |-> << "B" >>, text |-> << "y" >>],
       [author |-> << "A", "-", "B" >>, text |-> << "c" >>],
       [author |-> << "A" >>, text |-> << "B", "-", "c" >>] >>

ReviewIds == DOMAIN ReviewPool

\* the pages explored: one renders reviews 1 to 3, the other reviews 3 to 5
PrefixReviewIds == { i \in ReviewIds : i <= 3 }
HyphenReviewIds == { i \in ReviewIds : i >= 3 }

\* what one extractReviewData(page) call can return
ReviewBatches == SeqsUpTo(PrefixReviewIds, MaxPageReviews)
HyphenReviewBatches == SeqsUpTo(HyphenReviewIds, MaxPageReviews)

\* String.prototype.substring(0, n)
Substring(str, n) == SubSeq(str, 1, Min(n, Len(str)))

\* `${r.author || ''}-${r.text?.substring(0, 50) || ''}`
ReviewKey(r) ==
    (IF r.author = NullString THEN <<>> ELSE r.author)
    \o << "-" >>
    \o (IF r.text = NullString THEN <<>> ELSE Substring(r.text, KeyPrefixLen))

NoReviewHist == [seen |-> [i \in ReviewIds |-> 0], idle |-> 0, canScroll |-> TRUE]

\* results of the enrichment pipelines: a pipeline returns a list or throws
PhotoLists == { <<>>, <<1>> }
ContactOutcomes == {"newPageThrows", "gotoThrows", "extractThrows", "closeThrows", "ok"}

NoResult == [status |-> "none", token |-> 0, success |-> FALSE, attempts |-> 0]

(***************************************************************************)
(* Configuration as the code reads it.                                     *)
(***************************************************************************)
\* (input?.maxPlaces || 100)
PlacesLimit == OrDefault(input.maxPlaces, DefaultMaxPlaces)

\* the configured concurrency without the ceiling
PoolSizeUncapped == OrDefault(input.maxConcurrency, ConcurrencyCeiling)

\* maxConcurrency: Math.min(input.maxConcurrency || 2, 2)
PoolSize == Min(OrDefault(input.maxConcurrency, ConcurrencyCeiling), ConcurrencyCeiling)

\* const { maxRetries = 3 } = options
MaxRetries == DestructDefault(input.maxRetries, DefaultMaxRetries)

Busy == { c \in Ctx : pc[c] # "idle" }

\* no utility function has been called on its own
NoCall == [fn |-> "none"]
NoReturn == [status |-> "none"]

NoUtilCall ==
    /\ utilCall = NoCall
    /\ utilReturn = NoReturn
    /\ photoIndex = 0
    /\ storedPhotos = <<>>
    /\ fetchCalls = <<>>
    /\ setValueCalls = <<>>
    /\ blobStore = <<>>
    /\ downloads = <<>>

(***************************************************************************)
(* State after the crawler is constructed and crawler.run() has seeded the *)
(* queue with the SEARCH requests.                                         *)
(***************************************************************************)
InitFor(in) ==
    /\ input = in
    /\ queue = [s \in 1..in.numSearches |-> SearchRequest(s)]
    /\ sink = <<>>
    /\ cur = [c \in Ctx |-> NoRequest]
    /\ pc = [c \in Ctx |-> "idle"]
    /\ places = [c \in Ctx |-> <<>>]
    /\ scrollAttempts = [c \in Ctx |-> 0]
    /\ enqIdx = [c \in Ctx |-> 0]
    /\ seenRounds = [c \in Ctx |-> [u \in Urls |-> 0]]
    /\ attempt = [c \in Ctx |-> 0]
    /\ solveLog = [c \in Ctx |-> <<>>]
    /\ solveResult = [c \in Ctx |-> NoResult]
    /\ pageReads = [c \in Ctx |-> <<>>]
    /\ maxReviews = [c \in Ctx |-> 0]
    /\ allReviews = [c \in Ctx |-> <<>>]
    /\ previousReviewCount = [c \in Ctx |-> 0]
    /\ noNewReviewsCount = [c \in Ctx |-> 0]
    /\ reviewHist = [c \in Ctx |-> NoReviewHist]
    /\ placeData = [c \in Ctx |-> NoPlaceData]
    /\ enrich = [c \in Ctx |-> NoEnrich]
    /\ added = { SearchRequest(s) : s \in 1..in.numSearches }
    /\ taken = {}
    /\ handled = {}
    /\ failures = {}
    /\ audit = <<>>
    /\ runState = "running"
    /\ issuerCalls = CreateProxyConfiguration(in.proxyConfiguration).calls
    /\ proxyConfiguration = ProxyResult(CreateProxyConfiguration(in.proxyConfiguration), TRUE)
    /\ NoUtilCall


\* the state in which no request was made, no proxy asked for and no record pushed
IdleExceptUtil(in, rs) ==
    /\ input = in
    /\ queue = <<>>
    /\ sink = <<>>
    /\ cur = [c \in Ctx |-> NoRequest]
    /\ pc = [c \in Ctx |-> "idle"]
    /\ places = [c \in Ctx |-> <<>>]
    /\ scrollAttempts = [c \in Ctx |-> 0]
    /\ enqIdx = [c \in Ctx |-> 0]
    /\ seenRounds = [c \in Ctx |-> [u \in Urls |-> 0]]
    /\ attempt = [c \in Ctx |-> 0]
    /\ solveLog = [c \in Ctx |-> <<>>]
    /\ solveResult = [c \in Ctx |-> NoResult]
    /\ pageReads = [c \in Ctx |-> <<>>]
    /\ maxReviews = [c \in Ctx |-> 0]
    /\ allReviews = [c \in Ctx |-> <<>>]
    /\ previousReviewCount = [c \in Ctx |-> 0]
    /\ noNewReviewsCount = [c \in Ctx |-> 0]
    /\ reviewHist = [c \in Ctx |-> NoReviewHist]
    /\ placeData = [c \in Ctx |-> NoPlaceData]
    /\ enrich = [c \in Ctx |-> NoEnrich]
    /\ added = {}
    /\ taken = {}
    /\ handled = {}
    /\ failures = {}
    /\ audit = <<>>
    /\ runState = rs
    /\ issuerCalls = <<>>
    /\ proxyConfiguration = NoProxyResult

\* the state in which nothing has run yet: no request, no call, no record
InitIdle(in, rs) == IdleExceptUtil(in, rs) /\ NoUtilCall

(***************************************************************************)
(* The pool and the item boundary.                                         *)
(***************************************************************************)
shared == << input, queue, sink, added, taken, handled, failures, audit, runState, proxyVars, utilVars >>
searchLocals == << places, scrollAttempts, enqIdx, seenRounds >>
solveLocals == << attempt, solveLog, solveResult, pageReads >>
detailLocals == << placeData, enrich >>
reviewLocals == << maxReviews, allReviews, previousReviewCount, noNewReviewsCount, reviewHist >>

\* the context gives its page back: every local of the handler is gone
ReleaseContext(c) ==
    /\ cur' = [cur EXCEPT ![c] = NoRequest]
    /\ pc' = [pc EXCEPT ![c] = "idle"]
    /\ places' = [places EXCEPT ![c] = <<>>]
    /\ scrollAttempts' = [scrollAttempts EXCEPT ![c] = 0]
    /\ enqIdx' = [enqIdx EXCEPT ![c] = 0]
    /\ seenRounds' = [seenRounds EXCEPT ![c] = [u \in Urls |-> 0]]
    /\ attempt' = [attempt EXCEPT ![c] = 0]
    /\ solveLog' = [solveLog EXCEPT ![c] = <<>>]
    /\ solveResult' = [solveResult EXCEPT ![c] = NoResult]
    /\ pageReads' = [pageReads EXCEPT ![c] = <<>>]
    /\ maxReviews' = [maxReviews EXCEPT ![c] = 0]
    /\ allReviews' = [allReviews EXCEPT ![c] = <<>>]
    /\ previousReviewCount' = [previousReviewCount EXCEPT ![c] = 0]
    /\ noNewReviewsCount' = [noNewReviewsCount EXCEPT ![c] = 0]
    /\ reviewHist' = [reviewHist EXCEPT ![c] = NoReviewHist]
    /\ placeData' = [placeData EXCEPT ![c] = NoPlaceData]
    /\ enrich' = [enrich EXCEPT ![c] = NoEnrich]

\* a failure that is not caught at the item boundary: the pending requests are lost
ThrowAbortsRun(c, err, n) ==
    /\ failures' = failures \cup
           { [id |-> cur[c].id, error |-> err, n |-> n, calls |-> Len(solveLog[c])] }
    /\ ReleaseContext(c)
    /\ queue' = <<>>
    /\ UNCHANGED << input, sink, added, taken, handled, audit, runState, proxyVars, utilVars >>

\* requestHandler of context c throws err: the crawler catches it at the item
\* boundary, the request is dropped and the context returns to the pool
Throw(c, err, n) ==
    /\ failures' = failures \cup
           { [id |-> cur[c].id, error |-> err, n |-> n, calls |-> Len(solveLog[c])] }
    /\ ReleaseContext(c)
    /\ UNCHANGED << input, queue, sink, added, taken, handled, audit, runState, proxyVars, utilVars >>

\* requestHandler of context c returns
Return(c) ==
    /\ handled' = handled \cup {cur[c].id}
    /\ ReleaseContext(c)

\* the pool starts the handler of the next queued request on a free context,
\* while fewer than maxConcurrency handlers are running
TakeItem(c) ==
    /\ runState = "running"
    /\ pc[c] = "idle"
    /\ \A d \in Ctx : d < c => pc[d] # "idle"    \* contexts are interchangeable
    /\ queue # <<>>
    /\ Cardinality(Busy) < PoolSize
    /\ cur' = [cur EXCEPT ![c] = Head(queue)]
    /\ queue' = Tail(queue)
    /\ taken' = taken \cup {Head(queue).id}
    /\ pc' = [pc EXCEPT ![c] = "captcha"]
    /\ UNCHANGED << input, sink, added, handled, failures, audit, runState, proxyVars, utilVars,
                    searchLocals, solveLocals, detailLocals, reviewLocals >>

\* an awaited page or platform operation of the handler rejects (navigation
\* error, timeout of the navigation or of the handler)
HandlerThrows(c) ==
    /\ pc[c] # "idle"
    /\ Throw(c, "NetworkTimeoutError", 0)

\* crawler.run() resolves once the queue is empty and no handler is running
RunEnds ==
    /\ runState = "running"
    /\ queue = <<>>
    /\ Busy = {}
    /\ runState' = "ended"
    /\ UNCHANGED << input, queue, sink, added, taken, handled, failures, audit, proxyVars, utilVars,
                    cur, pc, searchLocals, solveLocals, detailLocals, reviewLocals >>

(***************************************************************************)
(* CaptchaGuard: detectCaptcha and solveCaptcha.                           *)
(***************************************************************************)
\* where the handler goes on once the CAPTCHA check is behind it
AfterCaptcha(c) == IF cur[c].label = "SEARCH" THEN "discover" ELSE "base"

\* if (await detectCaptcha(page)) { if (apiKey) await solveCaptcha(...)
\*                                  else throw ... (SEARCH branch only) }
DetectCaptcha(c, detected) ==
    /\ pc[c] = "captcha"
    /\ IF ~detected
       THEN /\ pc' = [pc EXCEPT ![c] = AfterCaptcha(c)]
            /\ enrich' = [enrich EXCEPT ![c].checks = @ + 1]
            /\ UNCHANGED << cur, shared, searchLocals, solveLocals, placeData, reviewLocals >>
       ELSE IF input.antiCaptchaApiKey
       THEN /\ pc' = [pc EXCEPT ![c] = "solveEntry"]
            /\ enrich' = [enrich EXCEPT ![c].challenged = TRUE, ![c].checks = @ + 1]
            /\ UNCHANGED << cur, shared, searchLocals, solveLocals, placeData, reviewLocals >>
       ELSE IF cur[c].label = "SEARCH"
       THEN Throw(c, "CAPTCHA detected but no API key provided", 0)
       ELSE /\ pc' = [pc EXCEPT ![c] = AfterCaptcha(c)]
            /\ enrich' = [enrich EXCEPT ![c].challenged = TRUE, ![c].checks = @ + 1]
            /\ UNCHANGED << cur, shared, searchLocals, solveLocals, placeData, reviewLocals >>

\* solveCaptcha throws err: to the test that called it, or out of requestHandler
SolveThrows(c, err, n) ==
    IF cur[c].label = "CALL"
    THEN /\ solveResult' = [solveResult EXCEPT ![c] =
                [status |-> err, token |-> 0, success |-> FALSE, attempts |-> n]]
         /\ pc' = [pc EXCEPT ![c] = "returned"]
         /\ UNCHANGED << cur, shared, searchLocals, attempt, solveLog, pageReads, detailLocals, reviewLocals >>
    ELSE Throw(c, err, n)

\* solveCaptcha with the page read before the API key is checked
SolveEnterReadsFirst(c) ==
    /\ pc[c] = "solveEntry"
    /\ pageReads' = [pageReads EXCEPT ![c] = << "url", "siteKey" >>]
    /\ IF ~input.antiCaptchaApiKey
       THEN /\ solveResult' = [solveResult EXCEPT ![c] =
                   [status |-> "Anti-Captcha API key is required", token |-> 0,
                    success |-> FALSE, attempts |-> 0]]
            /\ pc' = [pc EXCEPT ![c] = "returned"]
            /\ UNCHANGED << cur, shared, searchLocals, attempt, solveLog, detailLocals, reviewLocals >>
       ELSE /\ pc' = [pc EXCEPT ![c] = "solve"]
            /\ attempt' = [attempt EXCEPT ![c] = 0]
            /\ solveLog' = [solveLog EXCEPT ![c] = <<>>]
            /\ UNCHANGED << cur, shared, searchLocals, solveResult, detailLocals, reviewLocals >>

\* solveCaptcha up to its retry loop: the API key check, then page.url() and
\* the site key read by page.evaluate
SolveEnter(c) ==
    /\ pc[c] = "solveEntry"
    /\ IF ~input.antiCaptchaApiKey
       THEN SolveThrows(c, "Anti-Captcha API key is required", 0)
       ELSE /\ pc' = [pc EXCEPT ![c] = "solve"]
            /\ attempt' = [attempt EXCEPT ![c] = 0]
            /\ solveLog' = [solveLog EXCEPT ![c] = <<>>]
            /\ pageReads' = [pageReads EXCEPT ![c] = << "url", "siteKey" >>]
            /\ UNCHANGED << cur, shared, searchLocals, solveResult, detailLocals, reviewLocals >>

\* a delay that doubles with every attempt: 2000, 4000, 8000, ...
RetryDelayExponential(a) == IF a < MaxRetries - 1 THEN (BaseDelayMs \div 2) * 2^(a + 1) ELSE 0

\* setTimeout(resolve, 2000 * (attempt + 1)) when attempt < maxRetries - 1
RetryDelay(a) == IF a < MaxRetries - 1 THEN BaseDelayMs * (a + 1) ELSE 0

\* the retry loop without the return on success: the loop goes on after a token
SolveAttemptNoReturn(c, resp) ==
    /\ pc[c] = "solve"
    /\ IF attempt[c] < MaxRetries
       THEN /\ solveLog' = [solveLog EXCEPT ![c] =
                   Append(@, [resp |-> resp, wait |-> RetryDelay(attempt[c])])]
            /\ attempt' = [attempt EXCEPT ![c] = @ + 1]
            /\ solveResult' = [solveResult EXCEPT ![c] =
                   IF resp.kind = "token"
                   THEN [status |-> "ok", token |-> resp.tok, success |-> TRUE,
                         attempts |-> attempt[c] + 1]
                   ELSE @]
            /\ UNCHANGED << cur, pc, shared, searchLocals, pageReads, detailLocals, reviewLocals >>
       ELSE SolveThrows(c, "Failed to solve CAPTCHA", MaxRetries)

\* the retry loop with `attempt <= maxRetries` as its condition
SolveAttemptOffByOne(c, resp) ==
    /\ pc[c] = "solve"
    /\ IF attempt[c] <= MaxRetries
       THEN IF resp.kind = "token"
            THEN /\ solveLog' = [solveLog EXCEPT ![c] = Append(@, [resp |-> resp, wait |-> 0])]
                 /\ solveResult' = [solveResult EXCEPT ![c] =
                        [status |-> "ok", token |-> resp.tok, success |-> TRUE,
                         attempts |-> attempt[c] + 1]]
                 /\ pc' = [pc EXCEPT ![c] =
                        IF cur[c].label = "CALL" THEN "returned" ELSE AfterCaptcha(c)]
                 /\ UNCHANGED << cur, shared, searchLocals, attempt, pageReads, detailLocals, reviewLocals >>
            ELSE /\ solveLog' = [solveLog EXCEPT ![c] =
                        Append(@, [resp |-> resp, wait |-> RetryDelay(attempt[c])])]
                 /\ attempt' = [attempt EXCEPT ![c] = @ + 1]
                 /\ UNCHANGED << cur, pc, shared, searchLocals, solveResult, pageReads, detailLocals, reviewLocals >>
       ELSE SolveThrows(c, "Failed to solve CAPTCHA", MaxRetries)

\* one evaluation of the loop condition of solveCaptcha and, when it holds, one
\* iteration: Actor.call, the dataset read, the token injection
SolveAttempt(c, resp) ==
    /\ pc[c] = "solve"
    /\ IF attempt[c] < MaxRetries
       THEN IF resp.kind = "token"
            THEN /\ solveLog' = [solveLog EXCEPT ![c] = Append(@, [resp |-> resp, wait |-> 0])]
                 /\ solveResult' = [solveResult EXCEPT ![c] =
                        [status |-> "ok", token |-> resp.tok, success |-> TRUE,
                         attempts |-> attempt[c] + 1]]
                 /\ pc' = [pc EXCEPT ![c] =
                        IF cur[c].label = "CALL" THEN "returned" ELSE AfterCaptcha(c)]
                 /\ UNCHANGED << cur, shared, searchLocals, attempt, pageReads, detailLocals, reviewLocals >>
            ELSE /\ solveLog' = [solveLog EXCEPT ![c] =
                        Append(@, [resp |-> resp, wait |-> RetryDelay(attempt[c])])]
                 /\ attempt' = [attempt EXCEPT ![c] = @ + 1]
                 /\ UNCHANGED << cur, pc, shared, searchLocals, solveResult, pageReads, detailLocals, reviewLocals >>
       ELSE SolveThrows(c, "Failed to solve CAPTCHA", MaxRetries)

(***************************************************************************)
(* ListingDiscoverer: the SEARCH branch of requestHandler.                 *)
(***************************************************************************)
\* .filter(place => place.url && place.url.includes('/maps/place/'))
ListingUrls(batch) == SelectSeq2(batch, Urls)

\* const existingUrls = new Set(places.map(p => p.url));
\* const uniqueNewPlaces = newPlaces.filter(p => !existingUrls.has(p.url));
UniqueNewPlaces(ps, newPlaces) == SelectSeq2(newPlaces, Urls \ Range(ps))

\* places = [...places, ...uniqueNewPlaces]
MergePlaces(ps, newPlaces) == ps \o UniqueNewPlaces(ps, newPlaces)

\* the loop condition without its bound on the scroll attempts
KeepScrollingUnbounded(ps, n) == Len(ps) < PlacesLimit

\* while (places.length < (input?.maxPlaces || 100) && scrollAttempts < maxScrollAttempts)
KeepScrolling(ps, n) == Len(ps) < PlacesLimit /\ n < maxScrollAttempts

\* a discovery round that enqueues the first listing it has found right away
DiscoverRoundEnqueueing(c, batch) ==
    /\ pc[c] = "discover"
    /\ IF KeepScrolling(places[c], scrollAttempts[c])
       THEN LET merged == MergePlaces(places[c], ListingUrls(batch))
                early == IF merged = <<>> THEN {}
                         ELSE { DetailRequest(DetailId(cur[c].id, 1), merged[1], cur[c].id) }
            IN  /\ places' = [places EXCEPT ![c] = merged]
                /\ scrollAttempts' = [scrollAttempts EXCEPT ![c] = @ + 1]
                /\ seenRounds' = [seenRounds EXCEPT ![c] =
                       [u \in Urls |-> IF u \in Range(batch) THEN Min(@[u] + 1, 2) ELSE @[u]]]
                /\ added' = added \cup early
                /\ UNCHANGED << cur, pc, enqIdx, input, queue, sink, taken, handled, failures,
                                audit, runState, proxyVars, utilVars, solveLocals,
                                detailLocals, reviewLocals >>
       ELSE /\ pc' = [pc EXCEPT ![c] = "enqueue"]
            /\ enqIdx' = [enqIdx EXCEPT ![c] = 1]
            /\ UNCHANGED << cur, places, scrollAttempts, seenRounds, shared, solveLocals,
                            detailLocals, reviewLocals >>

\* one evaluation of the loop condition and, when it holds, one round: extract
\* the anchors, merge, scroll the feed, wait, scrollAttempts++
DiscoverRound(c, batch) ==
    /\ pc[c] = "discover"
    /\ IF KeepScrolling(places[c], scrollAttempts[c])
       THEN /\ places' = [places EXCEPT ![c] = MergePlaces(@, ListingUrls(batch))]
            /\ scrollAttempts' = [scrollAttempts EXCEPT ![c] = @ + 1]
            /\ seenRounds' = [seenRounds EXCEPT ![c] =
                   [u \in Urls |-> IF u \in Range(batch) THEN Min(@[u] + 1, 2) ELSE @[u]]]
            /\ UNCHANGED << cur, pc, enqIdx, shared, solveLocals, detailLocals, reviewLocals >>
       ELSE /\ pc' = [pc EXCEPT ![c] = "enqueue"]
            /\ enqIdx' = [enqIdx EXCEPT ![c] = 1]
            /\ UNCHANGED << cur, places, scrollAttempts, seenRounds, shared, solveLocals,
                            detailLocals, reviewLocals >>

\* places.slice(0, input?.maxPlaces || 100)
ToEnqueue(ps) == Slice(ps, PlacesLimit)

\* one step of `for (const place of places.slice(...)) await crawler.addRequests([...])`;
\* after the last place the handler returns
EnqueueNext(c) ==
    /\ pc[c] = "enqueue"
    /\ IF enqIdx[c] <= Len(ToEnqueue(places[c]))
       THEN LET r == DetailRequest(DetailId(cur[c].id, enqIdx[c]),
                                   ToEnqueue(places[c])[enqIdx[c]], cur[c].id)
            IN /\ queue' = Append(queue, r)
               /\ added' = added \cup {r}
               /\ enqIdx' = [enqIdx EXCEPT ![c] = @ + 1]
               /\ UNCHANGED << input, sink, cur, pc, places, scrollAttempts, seenRounds, taken,
                               handled, failures, audit, runState, proxyVars, utilVars,
                               solveLocals, detailLocals, reviewLocals >>
       ELSE /\ Return(c)
            /\ UNCHANGED << input, queue, sink, added, taken, failures, audit, runState, proxyVars, utilVars >>

(***************************************************************************)
(* ReviewCollector: scrollAndExtractReviews.                               *)
(***************************************************************************)
\* const { maxReviews = 100 } = options; const allReviews = [];
\* let previousReviewCount = 0; let noNewReviewsCount = 0
ScrollAndExtractReviewsEnter(c, m) ==
    /\ maxReviews' = [maxReviews EXCEPT ![c] = m]
    /\ allReviews' = [allReviews EXCEPT ![c] = <<>>]
    /\ previousReviewCount' = [previousReviewCount EXCEPT ![c] = 0]
    /\ noNewReviewsCount' = [noNewReviewsCount EXCEPT ![c] = 0]
    /\ reviewHist' = [reviewHist EXCEPT ![c] = NoReviewHist]

\* existingReviewKeys = new Set(allReviews.map(key))
ExistingReviewKeys(all) == { ReviewKey(ReviewPool[all[k]]) : k \in DOMAIN all }

\* newReviews = currentReviews.filter(r => !existingReviewKeys.has(key(r)))
NewReviews(all, currentReviews) ==
    SelectSeq2(currentReviews,
               { i \in ReviewIds : ReviewKey(ReviewPool[i]) \notin ExistingReviewKeys(all) })

\* the reviews of the pool that a batch renders, up to the key
RenderedKeys(currentReviews) ==
    { i \in ReviewIds : \E k \in DOMAIN currentReviews :
          ReviewKey(ReviewPool[currentReviews[k]]) = ReviewKey(ReviewPool[i]) }

\* the return of scrollAndExtractReviews without the slice
ReviewsReturnUnsliced(c, all) ==
    /\ placeData' = [placeData EXCEPT ![c].reviews = all]
    /\ pc' = [pc EXCEPT ![c] = IF cur[c].label = "DETAIL" THEN "photos" ELSE "returned"]

\* return allReviews.slice(0, maxReviews), to the caller of scrollAndExtractReviews
ReviewsReturn(c, all) ==
    /\ placeData' = [placeData EXCEPT ![c].reviews = Slice(all, maxReviews[c])]
    /\ pc' = [pc EXCEPT ![c] = IF cur[c].label = "DETAIL" THEN "photos" ELSE "returned"]

\* one evaluation of the loop condition of scrollAndExtractReviews and, when it
\* holds, one round: extractReviewData, the merge of the new reviews, the idle
\* counter, the scroll and the scrollability test with its break
ReviewRound(c, currentReviews, canScroll) ==
    /\ pc[c] = "reviewLoop"
    /\ IF Len(allReviews[c]) < maxReviews[c] /\ noNewReviewsCount[c] < maxNoNewReviews
       THEN LET newReviews == NewReviews(allReviews[c], currentReviews)
                all == allReviews[c] \o newReviews
                noNew == IF Len(currentReviews) = previousReviewCount[c]
                         THEN noNewReviewsCount[c] + 1 ELSE 0
            IN  /\ allReviews' = [allReviews EXCEPT ![c] = all]
                /\ noNewReviewsCount' = [noNewReviewsCount EXCEPT ![c] = noNew]
                /\ previousReviewCount' =
                       [previousReviewCount EXCEPT ![c] = Len(currentReviews)]
                /\ reviewHist' = [reviewHist EXCEPT
                       ![c].seen = [i \in ReviewIds |->
                                      IF i \in RenderedKeys(currentReviews)
                                      THEN Min(@[i] + 1, 2) ELSE @[i]],
                       ![c].idle = IF newReviews = <<>> THEN Min(@ + 1, maxNoNewReviews)
                                   ELSE 0,
                       ![c].canScroll = canScroll]
                /\ IF ~canScroll /\ noNew >= maxNoNewReviews
                   THEN ReviewsReturn(c, all)
                   ELSE UNCHANGED << pc, placeData >>
                /\ UNCHANGED << maxReviews >>
       ELSE /\ ReviewsReturn(c, allReviews[c])
            /\ UNCHANGED << reviewLocals >>
    /\ UNCHANGED << cur, shared, searchLocals, solveLocals, enrich >>

(***************************************************************************)
(* PhotoDownloader: extractPhotoUrls and downloadPhotos.                   *)
(***************************************************************************)
Digits == { "0", "1", "2", "3", "4", "5", "6", "7", "8", "9" }

\* a || b on strings: null, undefined and '' are falsy
Falsy(str) == str \in { Undefined, NullString, <<>> }
OrElse(a, b) == IF Falsy(a) THEN b ELSE a

\* str.includes(sub)
Includes(str, sub) ==
    \E k \in 1..(Len(str) - Len(sub) + 1) : SubSeq(str, k, k + Len(sub) - 1) = sub

\* the last index of the run of characters of class cls that starts at j (j - 1: no run)
RECURSIVE RunEnd(_, _, _)
RunEnd(str, j, cls) ==
    IF j <= Len(str) /\ str[j] \in cls THEN RunEnd(str, j + 1, cls) ELSE j - 1

\* the end of the match of /=w\d+-h\d+/ that starts at index k, 0 when there is none
SizeTokenEnd(str, k) ==
    IF k + 1 <= Len(str) /\ str[k] = "=" /\ str[k + 1] = "w"
    THEN LET w == RunEnd(str, k + 2, Digits)
         IN  IF w >= k + 2 /\ w + 2 <= Len(str) /\ str[w + 1] = "-" /\ str[w + 2] = "h"
             THEN LET h == RunEnd(str, w + 3, Digits)
                  IN  IF h >= w + 3 THEN h ELSE 0
             ELSE 0
    ELSE 0

Googleusercontent == << "g", "o", "o", "g", "l", "e", "u", "s", "e", "r", "c", "o", "n", "t", "e", "n", "t" >>
HighResToken == << "=", "w", "2", "0", "4", "8", "-", "h", "2", "0", "4", "8" >>

\* src.replace(/=w\d+-h\d+/, '=w2048-h2048'): the first match only
ReplaceSizeToken(str) ==
    LET starts == { k \in 1..Len(str) : SizeTokenEnd(str, k) > 0 }
    IN  IF starts = {} THEN str
        ELSE LET k == CHOOSE m \in starts : \A n \in starts : m <= n
             IN  SubSeq(str, 1, k - 1) \o HighResToken
                     \o SubSeq(str, SizeTokenEnd(str, k) + 1, Len(str))

\* document.querySelectorAll('img[src*="googleusercontent"], img[data-src*=...]')
MatchesPhotoSelector(img) ==
    \/ img.src # NullString /\ Includes(img.src, Googleusercontent)
    \/ img.dataSrc # NullString /\ Includes(img.dataSrc, Googleusercontent)

PhotoElements(imgs) == SelectSeq(imgs, MatchesPhotoSelector)

\* the src the forEach callback reads for an element
PhotoSrc(img) == OrElse(img.src, img.dataSrc)

\* if (src && src.includes('googleusercontent'))
IsPhoto(img) == ~Falsy(PhotoSrc(img)) /\ Includes(PhotoSrc(img), Googleusercontent)

\* the entry pushed for an element
PhotoOf(img) ==
    [url |-> ReplaceSizeToken(PhotoSrc(img)), thumbnail |-> PhotoSrc(img),
     alt |-> OrElse(img.alt, <<>>)]

\* photos after the forEach
PushedPhotos(imgs) ==
    LET kept == SelectSeq(PhotoElements(imgs), IsPhoto)
    IN  [k \in DOMAIN kept |-> PhotoOf(kept[k])]

\* [...new Map(photos.map((p) => [p.url, p])).values()]: a key keeps the position of
\* its first insertion and the value of its last one
MapValuesByUrl(photos) ==
    LET IsFirst(k) == \A j \in 1..(k - 1) : photos[j].url # photos[k].url
        firsts == SelectSeq([k \in DOMAIN photos |-> k], IsFirst)
        LastWith(u) == CHOOSE k \in DOMAIN photos :
                           /\ photos[k].url = u
                           /\ \A j \in DOMAIN photos : photos[j].url = u => j <= k
    IN  [n \in DOMAIN firsts |-> photos[LastWith(photos[firsts[n]].url)]]

ExtractPhotoUrls(imgs) == MapValuesByUrl(PushedPhotos(imgs))

\* `${i}` for an index i >= 0
DigitChars == << "0", "1", "2", "3", "4", "5", "6", "7", "8", "9" >>

RECURSIVE ToDecimal(_)
ToDecimal(n) ==
    IF n < 10 THEN << DigitChars[n + 1] >>
    ELSE ToDecimal(n \div 10) \o << DigitChars[(n % 10) + 1] >>

\* const key = `photo-${placeId}-${i}`
PhotoKey(placeId, n) == << "p", "h", "o", "t", "o", "-" >> \o placeId \o << "-" >> \o ToDecimal(n)

\* what can happen to one photo: fetch rejects, the response is not ok, reading the
\* body rejects, Actor.setValue rejects, or the photo is stored
FetchOutcomes == { "fetchThrows", "notOk", "bodyThrows", "setValueThrows", "ok" }

\* one iteration of the loop of downloadPhotos, the photo being stored under key
DownloadPhotoUnder(outcome, key) ==
    LET photo == utilCall.arg[photoIndex + 1]
    IN  /\ utilCall.fn = "downloadPhotos"
        /\ utilReturn = NoReturn
        /\ photoIndex < Len(utilCall.arg)
        /\ fetchCalls' = Append(fetchCalls, [url |-> photo.url, outcome |-> outcome])
        /\ setValueCalls' =
               IF outcome \in { "setValueThrows", "ok" }
               THEN Append(setValueCalls, [key |-> key, ok |-> outcome = "ok"])
               ELSE setValueCalls
        /\ storedPhotos' =
               IF outcome = "ok"
               THEN Append(storedPhotos, [key |-> key, url |-> photo.url,
                                          thumbnail |-> photo.thumbnail, alt |-> photo.alt])
               ELSE storedPhotos
        /\ photoIndex' = photoIndex + 1
        /\ UNCHANGED << input, queue, sink, added, taken, handled, failures, audit,
                        runState, proxyVars, cur, pc, searchLocals, solveLocals,
                        detailLocals, reviewLocals, blobStore, downloads, utilCall, utilReturn >>

\* as DownloadPhoto, without the try/catch around the iteration
DownloadPhotoNoCatch(outcome) ==
    IF outcome \in { "notOk", "ok" }
    THEN DownloadPhotoUnder(outcome, PhotoKey(utilCall.placeId, photoIndex))
    ELSE /\ utilCall.fn = "downloadPhotos"
         /\ utilReturn = NoReturn
         /\ photoIndex < Len(utilCall.arg)
         /\ fetchCalls' = Append(fetchCalls, [url |-> utilCall.arg[photoIndex + 1].url,
                                              outcome |-> outcome])
         /\ utilReturn' = [status |-> "throws"]
         /\ UNCHANGED << input, queue, sink, added, taken, handled, failures, audit,
                         runState, proxyVars, cur, pc, searchLocals, solveLocals,
                         detailLocals, reviewLocals, blobStore, downloads, utilCall, photoIndex, storedPhotos,
                         setValueCalls >>

\* as DownloadPhoto, the key numbered by the position in storedPhotos
DownloadPhotoKeyByPosition(outcome) ==
    DownloadPhotoUnder(outcome, PhotoKey(utilCall.placeId, Len(storedPhotos)))

\* for (let i = 0; i < photoUrls.length; i++) { try { ... } catch (error) { ... } }
DownloadPhoto(outcome) ==
    DownloadPhotoUnder(outcome, PhotoKey(utilCall.placeId, photoIndex))

\* return storedPhotos
DownloadPhotosReturn ==
    /\ utilCall.fn = "downloadPhotos"
    /\ utilReturn = NoReturn
    /\ photoIndex >= Len(utilCall.arg)
    /\ utilReturn' = [status |-> "returned", value |-> storedPhotos]
    /\ UNCHANGED << input, queue, sink, added, taken, handled, failures, audit, runState,
                    proxyVars, cur, pc, searchLocals, solveLocals, detailLocals,
                    reviewLocals, blobStore, downloads, utilCall, photoIndex, storedPhotos, fetchCalls,
                    setValueCalls >>

(***************************************************************************)
(* ContactExtractor: extractEmails and extractSocialMediaLinks.            *)
(***************************************************************************)
\* [a-zA-Z0-9._%+-] and [a-zA-Z0-9.-]
LocalChars == Letters \cup Digits \cup { ".", "_", "%", "+", "-" }
DomainChars == Letters \cup Digits \cup { ".", "-" }

\* the end of the match of /[a-zA-Z0-9._%+-]+@[a-zA-Z0-9.-]+\.[a-zA-Z]{2,}/ that
\* starts at index k, 0 when there is none.  The local part is the whole run before
\* the '@'; the domain is the longest one that leaves a '.' and two letters behind,
\* and the final label takes every letter that follows.
EmailEndAt(str, k) ==
    LET l == RunEnd(str, k, LocalChars)
    IN  IF l >= k /\ l + 1 <= Len(str) /\ str[l + 1] = "@"
        THEN LET d == RunEnd(str, l + 2, DomainChars)
                 dots == { e \in (l + 2)..d :
                              /\ e + 1 <= Len(str) /\ str[e + 1] = "."
                              /\ RunEnd(str, e + 2, Letters) >= e + 3 }
             IN  IF dots = {} THEN 0
                 ELSE LET e == CHOOSE m \in dots : \A n \in dots : n <= m
                      IN  RunEnd(str, e + 2, Letters)
        ELSE 0

\* text.match(emailRegex) with the g flag: the matches from index from on, left to
\* right, each search resuming behind the previous match
RECURSIVE EmailMatchesFrom(_, _)
EmailMatchesFrom(str, from) ==
    LET starts == { k \in from..Len(str) : EmailEndAt(str, k) > 0 }
    IN  IF starts = {} THEN <<>>
        ELSE LET k == CHOOSE m \in starts : \A n \in starts : m <= n
             IN  << SubSeq(str, k, EmailEndAt(str, k)) >>
                     \o EmailMatchesFrom(str, EmailEndAt(str, k) + 1)

\* [...new Set(list)]: the first occurrence of every value, in order
SetValues(list) ==
    LET IsFirst(k) == \A j \in 1..(k - 1) : list[j] # list[k]
        firsts == SelectSeq([k \in DOMAIN list |-> k], IsFirst)
    IN  [n \in DOMAIN firsts |-> list[firsts[n]]]

\* as ExtractEmails, without the Set
ExtractEmailsNoSet(text) ==
    IF Falsy(text) THEN <<>> ELSE EmailMatchesFrom(text, 1)

ExtractEmails(text) ==
    IF Falsy(text) THEN <<>> ELSE SetValues(EmailMatchesFrom(text, 1))

\* String.prototype.toLowerCase, on one character and on a string
ToLowerCaseChar(ch) ==
    IF \E k \in DOMAIN UpperLetters : UpperLetters[k] = ch
    THEN LowerLetters[CHOOSE k \in DOMAIN UpperLetters : UpperLetters[k] = ch]
    ELSE ch

ToLowerCase(str) == [k \in DOMAIN str |-> ToLowerCaseChar(str[k])]

\* the branches of the if / else-if chain, in order: the slot, the strings looked
\* for in the href and the string looked for in the link text
Platforms ==
    << [name |-> "facebook",
        hosts |-> { << "f", "a", "c", "e", "b", "o", "o", "k", ".", "c", "o", "m" >> },
        word |-> << "f", "a", "c", "e", "b", "o", "o", "k" >>],
       [name |-> "twitter",
        hosts |-> { << "t", "w", "i", "t", "t", "e", "r", ".", "c", "o", "m" >>, << "x", ".", "c", "o", "m" >> },
        word |-> << "t", "w", "i", "t", "t", "e", "r" >>],
       [name |-> "instagram",
        hosts |-> { << "i", "n", "s", "t", "a", "g", "r", "a", "m", ".", "c", "o", "m" >> },
        word |-> << "i", "n", "s", "t", "a", "g", "r", "a", "m" >>],
       [name |-> "linkedin",
        hosts |-> { << "l", "i", "n", "k", "e", "d", "i", "n", ".", "c", "o", "m" >> },
        word |-> << "l", "i", "n", "k", "e", "d", "i", "n" >>],
       [name |-> "youtube",
        hosts |-> { << "y", "o", "u", "t", "u", "b", "e", ".", "c", "o", "m" >> },
        word |-> << "y", "o", "u", "t", "u", "b", "e" >>],
       [name |-> "tiktok",
        hosts |-> { << "t", "i", "k", "t", "o", "k", ".", "c", "o", "m" >> },
        word |-> << "t", "i", "k", "t", "o", "k" >>],
       [name |-> "pinterest",
        hosts |-> { << "p", "i", "n", "t", "e", "r", "e", "s", "t", ".", "c", "o", "m" >> },
        word |-> << "p", "i", "n", "t", "e", "r", "e", "s", "t" >>] >>

PlatformNames == { Platforms[k].name : k \in DOMAIN Platforms }

\* does the branch of platform k match the link
BranchMatches(k, link) ==
    LET href == IF Falsy(link.href) THEN <<>> ELSE ToLowerCase(link.href)
        text == IF Falsy(link.text) THEN <<>> ELSE ToLowerCase(link.text)
    IN  \/ \E h \in Platforms[k].hosts : Includes(href, h)
        \/ Includes(text, Platforms[k].word)

\* the slot the chain assigns for the link: the first branch that matches, "none"
PlatformOf(link) ==
    LET matching == { k \in DOMAIN Platforms : BranchMatches(k, link) }
    IN  IF matching = {} THEN "none"
        ELSE Platforms[CHOOSE k \in matching : \A n \in matching : k <= n].name

\* const socialLinks = { facebook: null, ..., pinterest: null }
NoSocialLinks == [p \in PlatformNames |-> NullString]

\* links.forEach from link k on: a link that matches a branch is assigned to the
\* slot of that branch, whatever the slot holds
RECURSIVE AssignLinks(_, _, _)
AssignLinks(socialLinks, links, k) ==
    IF k > Len(links) THEN socialLinks
    ELSE AssignLinks(IF PlatformOf(links[k]) = "none" THEN socialLinks
                     ELSE [socialLinks EXCEPT ![PlatformOf(links[k])] = links[k].href],
                     links, k + 1)

\* Object.fromEntries(Object.entries(socialLinks).filter(([_, value]) => value !== null))
WithoutNulls(socialLinks) ==
    [p \in { q \in DOMAIN socialLinks : socialLinks[q] # NullString } |-> socialLinks[p]]

ExtractSocialMediaLinks(links) == WithoutNulls(AssignLinks(NoSocialLinks, links, 1))

(***************************************************************************)
(* Base extraction: the candidate rules of basicData.  The argument of a   *)
(* field is what its selectors find on the page, in the order of the list. *)
(***************************************************************************)
\* String.prototype.trim
RECURSIVE TrimStart(_)
TrimStart(str) == IF str # <<>> /\ Head(str) = " " THEN TrimStart(Tail(str)) ELSE str

RECURSIVE TrimEnd(_)
TrimEnd(str) ==
    IF str # <<>> /\ str[Len(str)] = " " THEN TrimEnd(SubSeq(str, 1, Len(str) - 1)) ELSE str

Trim(str) == TrimEnd(TrimStart(str))

\* getText(selectors) from selector k on; found[k] is the textContent of the first
\* element selector k matches, null when it matches none
RECURSIVE GetTextFrom(_, _)
GetTextFrom(found, k) ==
    IF k > Len(found) THEN NullString
    ELSE IF ~Falsy(found[k]) /\ Trim(found[k]) # <<>> THEN Trim(found[k])
    ELSE GetTextFrom(found, k + 1)

\* getAttr(selectors, attr) from selector k on; found[k] is the attribute of the
\* first element selector k matches, null without element or attribute
RECURSIVE GetAttrFrom(_, _)
GetAttrFrom(found, k) ==
    IF k > Len(found) THEN NullString
    ELSE IF ~Falsy(found[k]) THEN found[k]
    ELSE GetAttrFrom(found, k + 1)

\* (label).match(/(\d+\.?\d*)/): the first number of the string, null without one
NumberMatch(str) ==
    LET starts == { k \in DOMAIN str : str[k] \in Digits }
    IN  IF starts = {} THEN NullString
        ELSE LET k == CHOOSE m \in starts : \A n \in starts : m <= n
                 d == RunEnd(str, k, Digits)
                 e == IF d + 1 <= Len(str) /\ str[d + 1] = "."
                      THEN RunEnd(str, d + 2, Digits) ELSE d
             IN  SubSeq(str, k, e)

\* the number a rating element holds: ariaLabel || textContent || ''
RatingOf(element) == NumberMatch(OrElse(element.ariaLabel, OrElse(element.textContent, <<>>)))

\* ratingElement = querySelector(a) || querySelector(b) || querySelector(c): the
\* first selector that matches an element decides, whatever that element holds
ExtractRating(found) ==
    LET matched == { k \in DOMAIN found : found[k].present }
    IN  IF matched = {} THEN NullString
        ELSE RatingOf(found[CHOOSE k \in matched : \A n \in matched : k <= n])

\* the selectors of every field of basicData
RuleCount ==
    [title |-> 5, address |-> 5, phone |-> 5, website |-> 4, rating |-> 3, reviewCount |-> 3]

BaseFields == DOMAIN RuleCount

\* the value basicData gets for a field
ExtractField(field, found) ==
    IF field = "website" THEN GetAttrFrom(found, 1)
    ELSE IF field = "rating" THEN ExtractRating(found)
    ELSE GetTextFrom(found, 1)

\* element?.textContent?.trim() || null; found is null when no element matches
TextOrNull(found) ==
    IF Falsy(found) \/ Trim(found) = <<>> THEN NullString ELSE Trim(found)

\* the review object extractReviewData builds for one [data-review-id] element
ReviewOf(element) ==
    [author |-> TextOrNull(element.author), text |-> TextOrNull(element.text)]

\* extractReviewData without `if (review.author || review.text)`
RECURSIVE ExtractReviewDataKeepAll(_)
ExtractReviewDataKeepAll(elements) ==
    IF elements = <<>> THEN <<>>
    ELSE (IF Head(elements).throws THEN <<>> ELSE << ReviewOf(Head(elements)) >>)
             \o ExtractReviewDataKeepAll(Tail(elements))

\* reviewElements.forEach: an element whose extraction throws is skipped by the
\* catch, a review without author and text is not pushed
RECURSIVE ExtractReviewData(_)
ExtractReviewData(elements) ==
    IF elements = <<>> THEN <<>>
    ELSE (IF Head(elements).throws THEN <<>>
          ELSE IF ReviewOf(Head(elements)).author # NullString
                  \/ ReviewOf(Head(elements)).text # NullString
          THEN << ReviewOf(Head(elements)) >>
          ELSE <<>>)
             \o ExtractReviewData(Tail(elements))

\* request.loadedUrl.match(/place\/([^/]+)/)?.[1] || 'unknown'
PlaceSegment == << "p", "l", "a", "c", "e", "/" >>
Unknown == << "u", "n", "k", "n", "o", "w", "n" >>
PlaceMatches(url) ==
    { k \in 1..Len(url) : /\ k + Len(PlaceSegment) <= Len(url)
                          /\ SubSeq(url, k, k + Len(PlaceSegment) - 1) = PlaceSegment
                          /\ url[k + Len(PlaceSegment)] # "/" }
PlaceIdOf(url) ==
    IF PlaceMatches(url) = {} THEN Unknown
    ELSE LET k == CHOOSE m \in PlaceMatches(url) : \A n \in PlaceMatches(url) : m <= n
             from == k + Len(PlaceSegment)
             to == CHOOSE e \in from..Len(url) :
                       /\ \A j \in from..e : url[j] # "/"
                       /\ e = Len(url) \/ url[e + 1] = "/"
         IN  SubSeq(url, from, to)

\* await Actor.setValue(key, ...): the store keeps the last value written under a key
SetValue(store, key, value) ==
    [k \in DOMAIN store \cup {key} |-> IF k = key THEN value ELSE store[k]]

\* one iteration of the loop of downloadPhotos in the handler of DETAIL item `item`
ItemDownloadPhoto(item, outcome) ==
    LET d == downloads[item]
        photo == d.photoUrls[d.i + 1]
        key == PhotoKey(PlaceIdOf(d.loadedUrl), d.i)
    IN  /\ item \in DOMAIN downloads
        /\ d.status = "running"
        /\ d.i < Len(d.photoUrls)
        /\ blobStore' = IF outcome = "ok"
                        THEN SetValue(blobStore, key, [item |-> item, url |-> photo.url])
                        ELSE blobStore
        /\ downloads' = [downloads EXCEPT
               ![item].i = @ + 1,
               ![item].storedPhotos =
                   IF outcome = "ok" THEN Append(@, [key |-> key, url |-> photo.url]) ELSE @]
        /\ UNCHANGED << input, queue, sink, added, taken, handled, failures, audit,
                        runState, proxyVars, cur, pc, searchLocals, solveLocals,
                        detailLocals, reviewLocals, utilCall, utilReturn, photoIndex,
                        storedPhotos, fetchCalls, setValueCalls >>

\* return storedPhotos; placeData.photos = downloadedPhotos
ItemPhotosAssigned(item) ==
    /\ item \in DOMAIN downloads
    /\ downloads[item].status = "running"
    /\ downloads[item].i = Len(downloads[item].photoUrls)
    /\ downloads' = [downloads EXCEPT ![item].status = "assigned"]
    /\ UNCHANGED << input, queue, sink, added, taken, handled, failures, audit,
                    runState, proxyVars, cur, pc, searchLocals, solveLocals,
                    detailLocals, reviewLocals, utilCall, utilReturn, photoIndex,
                    storedPhotos, fetchCalls, setValueCalls, blobStore >>

(***************************************************************************)
(* DetailExtractor and the enrichment pipelines: the DETAIL branch.        *)
(***************************************************************************)
\* base extraction followed at once by pushData, the enrichment left out
ExtractBaseThenPush(c, data) ==
    /\ pc[c] = "base"
    /\ placeData' = [placeData EXCEPT ![c] =
           [base |-> data, url |-> cur[c].url, scrapedAt |-> "now", reviews |-> Unset,
            photos |-> Unset, contactInfo |-> "unset"]]
    /\ enrich' = [enrich EXCEPT ![c].base = data]
    /\ pc' = [pc EXCEPT ![c] = "push"]
    /\ UNCHANGED << cur, shared, searchLocals, solveLocals, reviewLocals >>

\* basicData = await page.evaluate(...); placeData = { ...basicData, url, scrapedAt }
ExtractBase(c, data) ==
    /\ pc[c] = "base"
    /\ placeData' = [placeData EXCEPT ![c] =
           [base |-> data, url |-> cur[c].url, scrapedAt |-> "now", reviews |-> Unset,
            photos |-> Unset, contactInfo |-> "unset"]]
    /\ enrich' = [enrich EXCEPT ![c].base = data]
    /\ pc' = [pc EXCEPT ![c] = "reviews"]
    /\ UNCHANGED << cur, shared, searchLocals, solveLocals, reviewLocals >>

\* if (input.includeReviews) { try { ... = await scrollAndExtractReviews(page,
\*     { maxReviews: input.maxReviews || 50 }) ...: the call is entered
ReviewsStep(c) ==
    /\ pc[c] = "reviews"
    /\ IF input.includeReviews
       THEN /\ ScrollAndExtractReviewsEnter(c, OrDefault(input.maxReviews, DefaultMaxReviews))
            /\ enrich' = [enrich EXCEPT ![c].ran = Append(@, "reviews")]
            /\ pc' = [pc EXCEPT ![c] = "reviewLoop"]
            /\ UNCHANGED << cur, shared, searchLocals, solveLocals, placeData >>
       ELSE /\ pc' = [pc EXCEPT ![c] = "photos"]
            /\ UNCHANGED << cur, shared, searchLocals, solveLocals, detailLocals, reviewLocals >>

\* the catch block of the reviews step, logging without assigning a default
ReviewsThrowsNoDefault(c) ==
    /\ pc[c] = "reviewLoop"
    /\ cur[c].label = "DETAIL"
    /\ enrich' = [enrich EXCEPT ![c].failed = @ \cup {"reviews"}]
    /\ pc' = [pc EXCEPT ![c] = "photos"]
    /\ UNCHANGED << cur, shared, searchLocals, solveLocals, placeData, reviewLocals >>

\* an awaited page operation of scrollAndExtractReviews rejects:
\* catch (error) { placeData.reviews = [] }
ReviewsThrows(c) ==
    /\ pc[c] = "reviewLoop"
    /\ cur[c].label = "DETAIL"
    /\ placeData' = [placeData EXCEPT ![c].reviews = <<>>]
    /\ enrich' = [enrich EXCEPT ![c].failed = @ \cup {"reviews"}]
    /\ pc' = [pc EXCEPT ![c] = "photos"]
    /\ UNCHANGED << cur, shared, searchLocals, solveLocals, reviewLocals >>

\* if (input.downloadPhotos) { try { placeData.photos = await downloadPhotos(...) }
\*                             catch { placeData.photos = [] } }
PhotosStep(c, throws, list) ==
    /\ pc[c] = "photos"
    /\ IF input.downloadPhotos
       THEN /\ placeData' = [placeData EXCEPT ![c].photos = IF throws THEN <<>> ELSE list]
            /\ enrich' = [enrich EXCEPT ![c].ran = Append(@, "photos"),
                                        ![c].failed = IF throws THEN @ \cup {"photos"} ELSE @]
       ELSE UNCHANGED << placeData, enrich >>
    /\ pc' = [pc EXCEPT ![c] = "contact"]
    /\ UNCHANGED << cur, shared, searchLocals, solveLocals, reviewLocals >>

\* the contact step without the test of placeData.website
ContactStepAnyWebsite(c, out) ==
    /\ pc[c] = "contact"
    /\ IF input.extractContactInfo
       THEN /\ placeData' = [placeData EXCEPT ![c].contactInfo =
                   IF out = "ok" THEN "info" ELSE "null"]
            /\ enrich' = [enrich EXCEPT
                   ![c].ran = Append(@, "contact"),
                   ![c].failed = IF out = "ok" THEN @ ELSE @ \cup {"contact"},
                   ![c].sitePage = IF out = "newPageThrows" THEN "none"
                                   ELSE IF out = "ok" THEN "closed" ELSE "open"]
       ELSE UNCHANGED << placeData, enrich >>
    /\ pc' = [pc EXCEPT ![c] = "push"]
    /\ UNCHANGED << cur, shared, searchLocals, solveLocals, reviewLocals >>

\* if (input.extractContactInfo && placeData.website) { try { newPage; goto;
\*   placeData.contactInfo = await extractContactInfo(websitePage); close }
\*   catch { placeData.contactInfo = null } }
ContactStep(c, out) ==
    /\ pc[c] = "contact"
    /\ IF input.extractContactInfo /\ placeData[c].base.website # Null
       THEN /\ placeData' = [placeData EXCEPT ![c].contactInfo =
                   IF out = "ok" THEN "info" ELSE "null"]
            /\ enrich' = [enrich EXCEPT
                   ![c].ran = Append(@, "contact"),
                   ![c].failed = IF out = "ok" THEN @ ELSE @ \cup {"contact"},
                   ![c].sitePage = IF out = "newPageThrows" THEN "none"
                                   ELSE IF out = "ok" THEN "closed" ELSE "open"]
       ELSE UNCHANGED << placeData, enrich >>
    /\ pc' = [pc EXCEPT ![c] = "push"]
    /\ UNCHANGED << cur, shared, searchLocals, solveLocals, reviewLocals >>

\* await Dataset.pushData(placeData), after which the handler returns
PushData(c) ==
    /\ pc[c] = "push"
    /\ sink' = Append(sink, placeData[c])
    /\ audit' = Append(audit, [id |-> cur[c].id, base |-> enrich[c].base,
                               failed |-> enrich[c].failed, ran |-> enrich[c].ran,
                               challenged |-> enrich[c].challenged])
    /\ Return(c)
    /\ UNCHANGED << input, queue, added, taken, failures, runState, proxyVars, utilVars >>

(***************************************************************************)
(* The run.                                                                *)
(***************************************************************************)
FullData == [title |-> "t", address |-> "a", phone |-> "p", website |-> "w",
             rating |-> "4.5", reviewCount |-> "10", gps |-> "gps"]
OneBatch == { <<1>> }
OneReviewBatch == { <<3>> }
FewReviewBatches == { <<>>, <<3>> }
FewBatches == { <<1>>, <<1, 1>> }
FewResponses == { [kind |-> "callThrows", tok |-> 0], [kind |-> "noToken", tok |-> 0],
                  [kind |-> "token", tok |-> 1] }

\* the run with every concurrency and CAPTCHA setting; pages of one shape
Next ==
    \/ \E c \in Ctx : TakeItem(c)
    \/ \E c \in Ctx : HandlerThrows(c)
    \/ \E c \in Ctx, d \in BOOLEAN : DetectCaptcha(c, d)
    \/ \E c \in Ctx : SolveEnter(c)
    \/ \E c \in Ctx, resp \in FewResponses : SolveAttempt(c, resp)
    \/ \E c \in Ctx, batch \in OneBatch : DiscoverRound(c, batch)
    \/ \E c \in Ctx : EnqueueNext(c)
    \/ \E c \in Ctx : ExtractBase(c, FullData)
    \/ \E c \in Ctx : ReviewsStep(c)
    \/ \E c \in Ctx, batch \in OneReviewBatch : ReviewRound(c, batch, FALSE)
    \/ \E c \in Ctx : ReviewsThrows(c)
    \/ \E c \in Ctx : PhotosStep(c, FALSE, <<1>>)
    \/ \E c \in Ctx : ContactStep(c, "ok")
    \/ \E c \in Ctx : PushData(c)
    \/ RunEnds

Init == \E in \in RunInputs : InitFor(in)

Spec == Init /\ [][Next]_vars

\* what context c does when the operation its handler awaits settles without error
Proceed(c) ==
    \/ TakeItem(c)
    \/ \E d \in BOOLEAN : DetectCaptcha(c, d)
    \/ SolveEnter(c)
    \/ \E resp \in FewResponses : SolveAttempt(c, resp)
    \/ \E batch \in OneBatch : DiscoverRound(c, batch)
    \/ EnqueueNext(c)
    \/ ExtractBase(c, FullData)
    \/ ReviewsStep(c)
    \/ \E batch \in OneReviewBatch : ReviewRound(c, batch, FALSE)
    \/ PhotosStep(c, FALSE, <<1>>)
    \/ ContactStep(c, "ok")
    \/ PushData(c)

\* every awaited operation settles (each is bounded by a timeout), the event
\* loop then resumes the handler, the pool starts a queued request on a free
\* context and crawler.run() resolves once nothing is left; nothing forces an
\* operation to fail
InitFair == \E in \in FairInputs : InitFor(in)

FairSpec ==
    InitFair /\ [][Next]_vars /\ (\A c \in Ctx : WF_vars(Proceed(c))) /\ WF_vars(RunEnds)

(***************************************************************************)
(* solveCaptcha called on its own, as its unit tests call it.              *)
(***************************************************************************)
CallRequest == [id |-> 0, label |-> "CALL", url |-> 0, parent |-> 0]

CaptchaInputs ==
    { in \in Inputs : /\ in.numSearches = 1 /\ in.maxConcurrency = 1 /\ in.maxPlaces = 1
                      /\ in.proxyConfiguration = EmptyOptions /\ in.maxReviews = 1
                      /\ ~in.includeReviews /\ ~in.downloadPhotos /\ ~in.extractContactInfo }

\* await solveCaptcha(mockPage, options)
CallSolveCaptcha(c) ==
    /\ c = 1
    /\ pc[c] = "idle"
    /\ cur' = [cur EXCEPT ![c] = CallRequest]
    /\ pc' = [pc EXCEPT ![c] = "solveEntry"]
    /\ UNCHANGED << shared, searchLocals, solveLocals, detailLocals, reviewLocals >>

InitCaptcha == \E in \in CaptchaInputs : InitIdle(in, "running")

NextCaptcha ==
    \/ \E c \in Ctx : CallSolveCaptcha(c)
    \/ \E c \in Ctx : SolveEnter(c)
    \/ \E c \in Ctx, resp \in Responses : SolveAttempt(c, resp)

SpecCaptcha == InitCaptcha /\ [][NextCaptcha]_vars

\* one search with every maxPlaces and every listing batch; detail pages of one shape
NextSearch ==
    \/ \E c \in Ctx : TakeItem(c)
    \/ \E c \in Ctx : HandlerThrows(c)
    \/ \E c \in Ctx, d \in BOOLEAN : DetectCaptcha(c, d)
    \/ \E c \in Ctx : SolveEnter(c)
    \/ \E c \in Ctx, resp \in FewResponses : SolveAttempt(c, resp)
    \/ \E c \in Ctx, batch \in Batches : DiscoverRound(c, batch)
    \/ \E c \in Ctx : EnqueueNext(c)
    \/ \E c \in Ctx : ExtractBase(c, FullData)
    \/ \E c \in Ctx : ReviewsStep(c)
    \/ \E c \in Ctx : PhotosStep(c, FALSE, <<>>)
    \/ \E c \in Ctx : ContactStep(c, "ok")
    \/ \E c \in Ctx : PushData(c)
    \/ RunEnds

InitSearch == \E in \in SearchInputs : InitFor(in)

SpecSearch == InitSearch /\ [][NextSearch]_vars

\* what context c does when the operation its handler awaits settles without error
ProceedSearch(c) ==
    \/ TakeItem(c)
    \/ \E d \in BOOLEAN : DetectCaptcha(c, d)
    \/ SolveEnter(c)
    \/ \E resp \in FewResponses : SolveAttempt(c, resp)
    \/ \E batch \in Batches : DiscoverRound(c, batch)
    \/ EnqueueNext(c)
    \/ ExtractBase(c, FullData)
    \/ ReviewsStep(c)
    \/ PhotosStep(c, FALSE, <<>>)
    \/ ContactStep(c, "ok")
    \/ PushData(c)

\* every awaited operation settles (each is bounded by a timeout) and the event
\* loop then resumes the handler; nothing forces an operation to fail
FairSpecSearch ==
    InitSearch /\ [][NextSearch]_vars /\ \A c \in Ctx : WF_vars(ProceedSearch(c))

\* one listing with every enrichment switch, every page content and pipeline outcome
NextDetail ==
    \/ \E c \in Ctx : TakeItem(c)
    \/ \E c \in Ctx : HandlerThrows(c)
    \/ \E c \in Ctx, d \in BOOLEAN : DetectCaptcha(c, d)
    \/ \E c \in Ctx : SolveEnter(c)
    \/ \E c \in Ctx, resp \in FewResponses : SolveAttempt(c, resp)
    \/ \E c \in Ctx, batch \in FewBatches : DiscoverRound(c, batch)
    \/ \E c \in Ctx : EnqueueNext(c)
    \/ \E c \in Ctx, data \in BasicDatas : ExtractBase(c, data)
    \/ \E c \in Ctx : ReviewsStep(c)
    \/ \E c \in Ctx, batch \in FewReviewBatches, canScroll \in BOOLEAN :
          ReviewRound(c, batch, canScroll)
    \/ \E c \in Ctx : ReviewsThrows(c)
    \/ \E c \in Ctx, t \in BOOLEAN, l \in PhotoLists : PhotosStep(c, t, l)
    \/ \E c \in Ctx, out \in ContactOutcomes : ContactStep(c, out)
    \/ \E c \in Ctx : PushData(c)
    \/ RunEnds

InitDetail == \E in \in DetailInputs : InitFor(in)

SpecDetail == InitDetail /\ [][NextDetail]_vars

(***************************************************************************)
(* createProxyConfiguration called on its own, as its unit tests call it.  *)
(***************************************************************************)
\* the input a unit test leaves at its defaults
UnitInput ==
    [numSearches |-> 1, maxPlaces |-> Absent, maxConcurrency |-> Absent,
     antiCaptchaApiKey |-> FALSE, maxRetries |-> Absent, includeReviews |-> FALSE,
     maxReviews |-> Absent,
     downloadPhotos |-> FALSE, extractContactInfo |-> FALSE,
     proxyConfiguration |-> EmptyOptions]

\* await createProxyConfiguration(options), the issuer resolving or rejecting
CallCreateProxyConfiguration(issuerOk) ==
    /\ proxyConfiguration = NoProxyResult
    /\ LET r == CreateProxyConfiguration(input.proxyConfiguration)
       IN  /\ issuerCalls' = issuerCalls \o r.calls
           /\ proxyConfiguration' = ProxyResult(r, issuerOk)
    /\ UNCHANGED << input, queue, sink, added, taken, handled, failures, audit, runState,
                    utilVars, cur, pc, searchLocals, solveLocals, detailLocals, reviewLocals >>

InitProxy ==
    \E o \in ProxyOptions :
        InitIdle([UnitInput EXCEPT !.proxyConfiguration = o], "running")

NextProxy == \E issuerOk \in BOOLEAN : CallCreateProxyConfiguration(issuerOk)

SpecProxy == InitProxy /\ [][NextProxy]_vars

\* solveCaptcha called with an API key and longer retry budgets
InitCaptchaRetries ==
    \E m \in {Absent} \cup (0..MaxRetriesUnit) :
        InitIdle([UnitInput EXCEPT !.antiCaptchaApiKey = TRUE, !.maxRetries = m], "running")

SpecCaptchaRetries == InitCaptchaRetries /\ [][NextCaptcha]_vars

(***************************************************************************)
(* The run from the start of main: the proxy, the crawler, crawler.run().  *)
(***************************************************************************)
\* const proxyConfiguration = await createProxyConfiguration(input.proxyConfiguration || {});
\* const crawler = new PlaywrightCrawler({...}).  An error here ends main.
MainCreateProxy(issuerOk) ==
    /\ runState = "starting"
    /\ LET r == CreateProxyConfiguration(input.proxyConfiguration)
       IN  /\ issuerCalls' = issuerCalls \o r.calls
           /\ proxyConfiguration' = ProxyResult(r, issuerOk)
           /\ runState' = IF ProxyResult(r, issuerOk).status \in {"throws", "issuerThrows"}
                          THEN "failed" ELSE "created"
    /\ UNCHANGED << input, queue, sink, added, taken, handled, failures, audit, utilVars,
                    cur, pc, searchLocals, solveLocals, detailLocals, reviewLocals >>

\* await crawler.run(input.searches.map(...)): the SEARCH requests enter the queue
StartCrawler ==
    /\ runState = "created"
    /\ queue' = [s \in 1..input.numSearches |-> SearchRequest(s)]
    /\ added' = { SearchRequest(s) : s \in 1..input.numSearches }
    /\ runState' = "running"
    /\ UNCHANGED << input, sink, taken, handled, failures, audit, proxyVars, utilVars,
                    cur, pc, searchLocals, solveLocals, detailLocals, reviewLocals >>

\* the runs explored from the start of main: every proxy setting
MainInputs ==
    { in \in Inputs : /\ in.numSearches = 1 /\ in.maxConcurrency = 1
                      /\ in.maxPlaces = 1 /\ in.maxRetries = 1
                      /\ in.maxReviews = 1
                      /\ in.includeReviews /\ in.downloadPhotos /\ in.extractContactInfo }

InitMain == \E in \in MainInputs : InitIdle(in, "starting")

NextMain ==
    \/ \E issuerOk \in BOOLEAN : MainCreateProxy(issuerOk)
    \/ StartCrawler
    \/ \E c \in Ctx : TakeItem(c)
    \/ \E c \in Ctx : HandlerThrows(c)
    \/ \E c \in Ctx, d \in BOOLEAN : DetectCaptcha(c, d)
    \/ \E c \in Ctx : SolveEnter(c)
    \/ \E c \in Ctx, resp \in FewResponses : SolveAttempt(c, resp)
    \/ \E c \in Ctx, batch \in OneBatch : DiscoverRound(c, batch)
    \/ \E c \in Ctx : EnqueueNext(c)
    \/ \E c \in Ctx : ExtractBase(c, FullData)
    \/ \E c \in Ctx : ReviewsStep(c)
    \/ \E c \in Ctx, batch \in OneReviewBatch : ReviewRound(c, batch, FALSE)
    \/ \E c \in Ctx : ReviewsThrows(c)
    \/ \E c \in Ctx : PhotosStep(c, FALSE, <<1>>)
    \/ \E c \in Ctx : ContactStep(c, "ok")
    \/ \E c \in Ctx : PushData(c)
    \/ RunEnds

SpecMain == InitMain /\ [][NextMain]_vars

(***************************************************************************)
(* scrollAndExtractReviews called on its own, as its unit tests call it.   *)
(***************************************************************************)
CallReviewsRequest == [id |-> 0, label |-> "CALLREVIEWS", url |-> 0, parent |-> 0]

\* const reviews = await scrollAndExtractReviews(mockPage, { maxReviews })
CallScrollAndExtractReviews(c) ==
    /\ c = 1
    /\ pc[c] = "idle"
    /\ cur' = [cur EXCEPT ![c] = CallReviewsRequest]
    /\ ScrollAndExtractReviewsEnter(c, DestructDefault(input.maxReviews,
                                                       DefaultOptionMaxReviews))
    /\ pc' = [pc EXCEPT ![c] = "reviewLoop"]
    /\ UNCHANGED << shared, searchLocals, solveLocals, detailLocals >>

InitReviews ==
    \E m \in {Absent} \cup (0..MaxReviewsCfg) :
        InitIdle([UnitInput EXCEPT !.maxReviews = m], "running")

NextReviews ==
    \/ \E c \in Ctx : CallScrollAndExtractReviews(c)
    \/ \E c \in Ctx, batch \in ReviewBatches, canScroll \in BOOLEAN :
          ReviewRound(c, batch, canScroll)

SpecReviews == InitReviews /\ [][NextReviews]_vars

\* the same call with the default maxReviews on a page of reviews 3 to 5
InitReviewKeys == InitIdle(UnitInput, "running")

NextReviewKeys ==
    \/ \E c \in Ctx : CallScrollAndExtractReviews(c)
    \/ \E c \in Ctx, batch \in HyphenReviewBatches, canScroll \in BOOLEAN :
          ReviewRound(c, batch, canScroll)

SpecReviewKeys == InitReviewKeys /\ [][NextReviewKeys]_vars

\* every await of the call resolves, so the call and its loop keep taking steps
FairSpecReviews == SpecReviews /\ WF_vars(NextReviews)

\* the runs explored for the reviews of a record: one listing, every maxReviews
DetailReviewsInputs ==
    { in \in Inputs : /\ in.numSearches = 1 /\ in.maxConcurrency = 1
                      /\ in.maxPlaces = 1 /\ in.maxRetries = 1
                      /\ in.proxyConfiguration = EmptyOptions
                      /\ in.includeReviews /\ ~in.downloadPhotos /\ ~in.extractContactInfo }

InitDetailReviews == \E in \in DetailReviewsInputs : InitFor(in)

SpecDetailReviews == InitDetailReviews /\ [][NextDetail]_vars

(***************************************************************************)
(* extractPhotoUrls called on its own, as its unit tests call it.          *)
(***************************************************************************)
\* img elements a place page can hold: the same photo in two sizes, in a third size
\* under data-src, another photo, a photo without a size token, a photo with two
\* tokens, an image of another host, an image that only has a foreign src
ImgPool ==
    << [src |-> Googleusercontent \o << "/", "p", "=", "w", "1", "-", "h", "1" >>,
        dataSrc |-> NullString, alt |-> << "a" >>],
       [src |-> Googleusercontent \o << "/", "p", "=", "w", "2", "2", "-", "h", "2" >>,
        dataSrc |-> NullString, alt |-> << "b" >>],
       [src |-> NullString,
        dataSrc |-> Googleusercontent \o << "/", "p", "=", "w", "3", "-", "h", "3" >>,
        alt |-> NullString],
       [src |-> Googleusercontent \o << "/", "q", "=", "w", "1", "-", "h", "1" >>,
        dataSrc |-> NullString, alt |-> << "c" >>],
       [src |-> Googleusercontent \o << "/", "p" >>,
        dataSrc |-> NullString, alt |-> NullString],
       [src |-> Googleusercontent \o << "/", "p", "=", "w", "1", "-", "h", "1",
                                         "=", "w", "5", "-", "h", "5" >>,
        dataSrc |-> NullString, alt |-> << "d" >>],
       [src |-> << "x", "/", "p", "=", "w", "1", "-", "h", "1" >>,
        dataSrc |-> Googleusercontent \o << "/", "p", "=", "w", "1", "-", "h", "1" >>,
        alt |-> << "e" >>],
       [src |-> << "x", "/", "p" >>, dataSrc |-> NullString, alt |-> NullString] >>

ImgLists == SeqsUpTo(Range(ImgPool), MaxImgs)

\* the state before a utility function is called with arguments call
InitUtil(call) ==
    /\ IdleExceptUtil(UnitInput, "running")
    /\ utilCall = call
    /\ utilReturn = NoReturn
    /\ photoIndex = 0
    /\ storedPhotos = <<>>
    /\ fetchCalls = <<>>
    /\ setValueCalls = <<>>
    /\ blobStore = <<>>
    /\ downloads = <<>>

\* const photos = await extractPhotoUrls(mockPage)
CallExtractPhotoUrls ==
    /\ utilCall.fn = "extractPhotoUrls"
    /\ utilReturn = NoReturn
    /\ utilReturn' = [status |-> "returned", value |-> ExtractPhotoUrls(utilCall.arg)]
    /\ UNCHANGED << input, queue, sink, added, taken, handled, failures, audit, runState,
                    proxyVars, cur, pc, searchLocals, solveLocals, detailLocals,
                    reviewLocals, blobStore, downloads, utilCall, photoIndex, storedPhotos, fetchCalls,
                    setValueCalls >>

InitPhotoUrls == \E imgs \in ImgLists : InitUtil([fn |-> "extractPhotoUrls", arg |-> imgs])

NextPhotoUrls == CallExtractPhotoUrls

SpecPhotoUrls == InitPhotoUrls /\ [][NextPhotoUrls]_vars

(***************************************************************************)
(* downloadPhotos called on its own, as its unit tests call it.            *)
(***************************************************************************)
\* photo descriptors as extractPhotoUrls returns them
PhotoPool == { PhotoOf(ImgPool[1]), PhotoOf(ImgPool[4]) }

PhotoUrlLists == SeqsUpTo(PhotoPool, MaxPhotos)

\* place identifiers: a slug, a slug that ends like an index, the fallback
PlaceIds == { << "a" >>, << "a", "-", "1" >>, << "u", "n", "k", "n", "o", "w", "n" >> }

InitDownload ==
    \E photoUrls \in PhotoUrlLists, placeId \in PlaceIds :
        InitUtil([fn |-> "downloadPhotos", arg |-> photoUrls, placeId |-> placeId])

NextDownload ==
    \/ \E outcome \in FetchOutcomes : DownloadPhoto(outcome)
    \/ DownloadPhotosReturn

SpecDownload == InitDownload /\ [][NextDownload]_vars

(***************************************************************************)
(* extractEmails called on its own, as its unit tests call it.             *)
(***************************************************************************)
\* words of a page text: two addresses, an address followed by a one-letter label,
\* a word without '@', an address whose last label is too short
Words ==
    { << "a", "@", "b", ".", "c", "o" >>,
      << "c", "@", "d", ".", "i", "o" >>,
      << "a", "@", "b", ".", "c", "o", ".", "x" >>,
      << "n", "o" >>,
      << "a", "@", "b", ".", "c" >> }

RECURSIVE JoinWords(_)
JoinWords(ws) ==
    IF ws = <<>> THEN <<>>
    ELSE IF Len(ws) = 1 THEN ws[1]
    ELSE ws[1] \o << " " >> \o JoinWords(Tail(ws))

Texts == { JoinWords(ws) : ws \in SeqsUpTo(Words, MaxWords) } \cup { NullString, Undefined }

\* const emails = extractEmails(text)
CallExtractEmails ==
    /\ utilCall.fn = "extractEmails"
    /\ utilReturn = NoReturn
    /\ utilReturn' = [status |-> "returned", value |-> ExtractEmails(utilCall.arg)]
    /\ UNCHANGED << input, queue, sink, added, taken, handled, failures, audit, runState,
                    proxyVars, cur, pc, searchLocals, solveLocals, detailLocals,
                    reviewLocals, blobStore, downloads, utilCall, photoIndex, storedPhotos, fetchCalls,
                    setValueCalls >>

InitEmails == \E text \in Texts : InitUtil([fn |-> "extractEmails", arg |-> text])

NextEmails == CallExtractEmails

SpecEmails == InitEmails /\ [][NextEmails]_vars

(***************************************************************************)
(* extractSocialMediaLinks called on its own, as its unit tests call it.   *)
(***************************************************************************)
\* a[href] elements of a website: three links for facebook (one by its text, one in
\* upper case), two for twitter (one through 'x.com'), one for no platform
LinkPool ==
    { [href |-> << "f", "a", "c", "e", "b", "o", "o", "k", ".", "c", "o", "m", "/", "a" >>, text |-> << "f", "b" >>],
      [href |-> << "F", "A", "C", "E", "B", "O", "O", "K", ".", "c", "o", "m", "/", "b" >>, text |-> <<>>],
      [href |-> << "/", "c" >>, text |-> << "F", "a", "c", "e", "b", "o", "o", "k" >>],
      [href |-> << "t", "w", "i", "t", "t", "e", "r", ".", "c", "o", "m", "/", "a" >>, text |-> NullString],
      [href |-> << "n", "e", "t", "f", "l", "i", "x", ".", "c", "o", "m" >>, text |-> << "t", "v" >>],
      [href |-> << "/", "a", "b", "o", "u", "t" >>, text |-> << "A", "b", "o", "u", "t" >>] }

LinkLists == SeqsUpTo(LinkPool, MaxLinks)

\* const links = await extractSocialMediaLinks(mockPage)
CallExtractSocialMediaLinks ==
    /\ utilCall.fn = "extractSocialMediaLinks"
    /\ utilReturn = NoReturn
    /\ utilReturn' = [status |-> "returned", value |-> ExtractSocialMediaLinks(utilCall.arg)]
    /\ UNCHANGED << input, queue, sink, added, taken, handled, failures, audit, runState,
                    proxyVars, cur, pc, searchLocals, solveLocals, detailLocals,
                    reviewLocals, blobStore, downloads, utilCall, photoIndex, storedPhotos, fetchCalls,
                    setValueCalls >>

InitSocial ==
    \E links \in LinkLists : InitUtil([fn |-> "extractSocialMediaLinks", arg |-> links])

NextSocial == CallExtractSocialMediaLinks

SpecSocial == InitSocial /\ [][NextSocial]_vars

(***************************************************************************)
(* The rules of base extraction applied to one field of a detail page.     *)
(***************************************************************************)
\* what a selector of a text field can find: no element, an element without text,
\* with blanks only, with a padded text, with another text
TextFinds == { NullString, <<>>, << " " >>, << " ", "a", " " >>, << "b" >> }

\* what a selector of the website can find: no element or no href, an empty href, two urls
AttrFinds == { NullString, <<>>, << "u" >>, << "v" >> }

\* what a selector of the rating can find: no element, an element without label and
\* text, with a label that holds no number, with a number in the label, in the text
RatingFinds ==
    { [present |-> FALSE, ariaLabel |-> NullString, textContent |-> <<>>],
      [present |-> TRUE, ariaLabel |-> NullString, textContent |-> <<>>],
      [present |-> TRUE, ariaLabel |-> << "N", "e", "w" >>, textContent |-> << "4" >>],
      [present |-> TRUE, ariaLabel |-> << "4", ".", "5", " ", "s", "t", "a", "r", "s" >>, textContent |-> <<>>],
      [present |-> TRUE, ariaLabel |-> NullString, textContent |-> << "3" >>] }

FindsOf(field) ==
    IF field = "website" THEN AttrFinds
    ELSE IF field = "rating" THEN RatingFinds
    ELSE TextFinds

\* const basicData = await page.evaluate(...), one field of it
CallExtractField ==
    /\ utilCall.fn = "basicData"
    /\ utilReturn = NoReturn
    /\ utilReturn' = [status |-> "returned",
                      value |-> ExtractField(utilCall.field, utilCall.arg)]
    /\ UNCHANGED << input, queue, sink, added, taken, handled, failures, audit, runState,
                    proxyVars, cur, pc, searchLocals, solveLocals, detailLocals,
                    reviewLocals, blobStore, downloads, utilCall, photoIndex, storedPhotos, fetchCalls,
                    setValueCalls >>

InitBase ==
    \E field \in BaseFields :
        \E found \in [1..RuleCount[field] -> FindsOf(field)] :
            InitUtil([fn |-> "basicData", field |-> field, arg |-> found])

NextBase == CallExtractField

SpecBase == InitBase /\ [][NextBase]_vars

(***************************************************************************)
(* extractReviewData and scrollAndExtractReviews called on their own.      *)
(***************************************************************************)
\* [data-review-id] elements of a page: two complete reviews (one padded with
\* blanks), an element without author and with a blank text, an element whose
\* extraction throws, an element with a text only
ReviewElementPool ==
    { [author |-> << " ", "A", " " >>, text |-> LongPrefix \o << "a" >>, throws |-> FALSE],
      [author |-> << "B" >>, text |-> << "y" >>, throws |-> FALSE],
      [author |-> NullString, text |-> << " " >>, throws |-> FALSE],
      [author |-> << "A" >>, text |-> << "y" >>, throws |-> TRUE],
      [author |-> NullString, text |-> << "y" >>, throws |-> FALSE] }

ReviewElementLists == SeqsUpTo(ReviewElementPool, MaxPageReviews)

\* const reviews = await extractReviewData(mockPage)
CallExtractReviewData ==
    /\ utilCall.fn = "extractReviewData"
    /\ utilReturn = NoReturn
    /\ utilReturn' = [status |-> "returned", value |-> ExtractReviewData(utilCall.arg)]
    /\ UNCHANGED << input, queue, sink, added, taken, handled, failures, audit, runState,
                    proxyVars, cur, pc, searchLocals, solveLocals, detailLocals,
                    reviewLocals, blobStore, downloads, utilCall, photoIndex, storedPhotos, fetchCalls,
                    setValueCalls >>

\* one test calls extractReviewData on a page, another scrollAndExtractReviews
InitReviewData ==
    \/ \E elements \in ReviewElementLists :
            InitUtil([fn |-> "extractReviewData", arg |-> elements])
    \/ InitUtil([fn |-> "scrollAndExtractReviews", arg |-> <<>>])

NextReviewData ==
    \/ CallExtractReviewData
    \/ utilCall.fn = "scrollAndExtractReviews" /\ NextReviews

SpecReviewData == InitReviewData /\ [][NextReviewData]_vars

(***************************************************************************)
(* The photos step of the DETAIL items of one run, on one key-value store. *)
(***************************************************************************)
\* the pages the DETAIL items were loaded from: two listings with the same name
\* segment, a third listing, a redirect to a page without place segment
LoadedUrls ==
    { << "/", "p", "l", "a", "c", "e", "/", "a", "/", "1" >>,
      << "/", "p", "l", "a", "c", "e", "/", "a", "/", "2" >>,
      << "/", "p", "l", "a", "c", "e", "/", "b", "/", "1" >>,
      << "/", "s", "o", "r", "r", "y" >> }

ItemPhotoLists == SeqsUpTo(PhotoPool, MaxItemPhotos)

Items == 1..NumItems

InitBlobs ==
    /\ IdleExceptUtil([UnitInput EXCEPT !.downloadPhotos = TRUE], "running")
    /\ utilCall = NoCall
    /\ utilReturn = NoReturn
    /\ photoIndex = 0
    /\ storedPhotos = <<>>
    /\ fetchCalls = <<>>
    /\ setValueCalls = <<>>
    /\ blobStore = <<>>
    /\ \E urls \in [Items -> LoadedUrls], lists \in [Items -> ItemPhotoLists] :
          downloads = [item \in Items |->
                          [loadedUrl |-> urls[item], photoUrls |-> lists[item], i |-> 0,
                           storedPhotos |-> <<>>, status |-> "running"]]

\* the handlers of the items run concurrently: their awaits interleave
NextBlobs ==
    \/ \E item \in Items, outcome \in FetchOutcomes : ItemDownloadPhoto(item, outcome)
    \/ \E item \in Items : ItemPhotosAssigned(item)

SpecBlobs == InitBlobs /\ [][NextBlobs]_vars

(***************************************************************************)
(* Listing discovery (claims C1 to C4), checked under SpecSearch.          *)
(***************************************************************************)
DetailsOf(s) == { r \in added : r.label = "DETAIL" /\ r.parent = s }

NoDuplicateUrl(ps) == \A i, j \in DOMAIN ps : ps[i] = ps[j] => i = j

\* C1: for every configured maxPlaces = k >= 0, one SEARCH item enqueues at most
\* k DETAIL items.
C1_MaxPlacesCap ==
    input.maxPlaces # Absent =>
        \A s \in 1..input.numSearches : Cardinality(DetailsOf(s)) <= input.maxPlaces

\* C2: a listing url returned by two different extraction rounds of one SEARCH
\* item appears exactly once in the accumulated listing set.
C2_CrossRoundDedup ==
    \A c \in Ctx : \A u \in Urls :
        seenRounds[c][u] >= 2 => Count(places[c], u) = 1

\* C3: after every round, no two entries of the accumulated listing set share
\* the same url.
C3_UniqueByUrl == \A c \in Ctx : NoDuplicateUrl(places[c])

FailedIds == { f.id : f \in failures }

RunComplete ==
    /\ runState = "ended"
    /\ queue = <<>>
    /\ \A r \in added : r.id \in taken /\ r.id \in handled \cup FailedIds

\* C5: the failure of one work item leaves the queue, the Sink, the run and the
\* other contexts as they are, and after a failure every request that was or
\* will be added is still taken by a context: the run ends with an empty queue.
C5_FailureIsolation ==
    /\ [][\A c \in Ctx :
            (failures' # failures /\ cur[c] # NoRequest /\ cur'[c] = NoRequest)
            => /\ queue' = queue /\ sink' = sink /\ runState' = runState
               /\ \A d \in Ctx \ {c} : cur'[d] = cur[d] /\ pc'[d] = pc[d]]_vars
    /\ [](runState = "ended" => RunComplete)
    /\ (failures # {}) ~> RunComplete

\* with one context, the first search failed while the second was queued; the
\* second search and its DETAIL item were processed and the run ended
C5_Witness ==
    /\ runState = "ended"
    /\ input.maxConcurrency = 1
    /\ 1 \in FailedIds
    /\ \E i \in DOMAIN audit : audit[i].id = DetailId(2, 1)

EnabledPipelines(base) ==
    (IF input.includeReviews THEN <<"reviews">> ELSE <<>>)
    \o (IF input.downloadPhotos THEN <<"photos">> ELSE <<>>)
    \o (IF input.extractContactInfo /\ base.website # Null THEN <<"contact">> ELSE <<>>)

C7_OneRecordAfterEnrichment ==
    /\ \A i, j \in DOMAIN audit : audit[i].id = audit[j].id => i = j
    /\ \A r \in added :
          (r.label = "DETAIL" /\ r.id \in handled) =>
              \E i \in DOMAIN audit : audit[i].id = r.id
    /\ \A i \in DOMAIN audit :
          /\ audit[i].id \in handled
          /\ audit[i].ran = EnabledPipelines(sink[i].base)
          /\ input.includeReviews => sink[i].reviews # Unset
          /\ input.downloadPhotos => sink[i].photos # Unset
          /\ (input.extractContactInfo /\ sink[i].base.website # Null)
                => sink[i].contactInfo # "unset"

\* a record was pushed by an item with all three pipelines enabled and run
C7_Witness ==
    \E i \in DOMAIN audit :
        /\ audit[i].ran = <<"reviews", "photos", "contact">>
        /\ audit[i].id \in handled

(***************************************************************************)
(* solveCaptcha (claims C9 and C10).                                       *)
(***************************************************************************)
\* the number of attempts solveCaptcha is configured for
ConfiguredRetries == IF input.maxRetries = Absent THEN 3 ELSE input.maxRetries

\* C9: with an API key and maxRetries = n >= 1, when the solver fails on
\* attempts 1..i-1 and succeeds on attempt i <= n, exactly i solve calls are
\* made, none after the first success, and the call returns the token of
\* attempt i. An attempt succeeds when the solver's answer carries a token and
\* the token was injected into the page. (Checked under SpecCaptcha.)
C9_RetryUntilFirstSuccess ==
    \A c \in Ctx :
        /\ Len(solveLog[c]) <= ConfiguredRetries
        /\ \A i \in DOMAIN solveLog[c] :
              solveLog[c][i].resp.kind = "token" =>
                  /\ i = Len(solveLog[c])
                  /\ \A j \in 1..(i - 1) : solveLog[c][j].resp.kind # "token"
                  /\ pc[c] = "returned"
                  /\ solveResult[c] = [status |-> "ok", token |-> solveLog[c][i].resp.tok,
                                       success |-> TRUE, attempts |-> i]
        /\ solveResult[c].status = "ok" =>
              /\ solveLog[c] # <<>>
              /\ solveLog[c][Len(solveLog[c])].resp.kind = "token"

\* the solver failed on attempts 1 and 2 and answered token 2 on attempt 3:
\* three calls, token 2 returned
C9_Witness ==
    \E c \in Ctx :
        /\ Len(solveLog[c]) = 3
        /\ solveLog[c][1].resp.kind = "callThrows"
        /\ solveLog[c][2].resp.kind = "noToken"
        /\ solveLog[c][3].resp = [kind |-> "token", tok |-> 2]
        /\ solveResult[c].token = 2
        /\ pc[c] = "returned"

\* C10: with an API key and maxRetries = n >= 0, when every solve attempt fails,
\* exactly n solve calls are made and solveCaptcha fails with 'Failed to solve
\* CAPTCHA after n attempts'; the error ends the work item that met the CAPTCHA
\* and nothing else. (Checked under Spec.)
C10_ExhaustedRetries ==
    /\ [](\A f \in failures :
            f.error = "Failed to solve CAPTCHA" =>
                f.n = ConfiguredRetries /\ f.calls = ConfiguredRetries)
    /\ [](\A c \in Ctx :
            pc[c] = "solve" =>
                /\ Len(solveLog[c]) = attempt[c]
                /\ attempt[c] <= ConfiguredRetries
                /\ \A i \in DOMAIN solveLog[c] : solveLog[c][i].resp.kind # "token")
    /\ [][\A c \in Ctx :
            (pc[c] = "solve" /\ attempt[c] = ConfiguredRetries /\ pc'[c] # "solve")
            => /\ \E f \in failures' \ failures :
                    /\ f.id = cur[c].id
                    /\ f.error \in {"Failed to solve CAPTCHA", "NetworkTimeoutError"}
               /\ queue' = queue /\ sink' = sink /\ runState' = runState
               /\ \A d \in Ctx \ {c} : cur'[d] = cur[d] /\ pc'[d] = pc[d]]_vars

\* maxRetries = 2: the first search failed after two failed solve calls, the
\* second search and its DETAIL item were still processed
C10_Witness ==
    /\ input.maxRetries = 2
    /\ [id |-> 1, error |-> "Failed to solve CAPTCHA", n |-> 2, calls |-> 2] \in failures
    /\ \E i \in DOMAIN audit : audit[i].id = DetailId(2, 1)

(***************************************************************************)
(* A challenge without a configured solver (claim C11), under SpecDetail.  *)
(***************************************************************************)
\* C11: when a challenge is detected on the page of a work item and no solver
\* API key is configured, the item fails: a SEARCH item enqueues no DETAIL
\* item and a DETAIL item pushes no PlaceRecord.
C11_CaptchaWithoutKeyFails ==
    ~input.antiCaptchaApiKey =>
        /\ \A c \in Ctx : enrich[c].challenged => cur[c].label # "SEARCH"
        /\ \A i \in DOMAIN audit : ~audit[i].challenged
        /\ \A f \in failures :
              f.error = "CAPTCHA detected but no API key provided" =>
                  /\ f.id \notin handled
                  /\ \A r \in added : r.parent # f.id

(***************************************************************************)
(* createProxyConfiguration (claims C12, C14, C15 under SpecProxy, claim   *)
(* C13 under SpecMain).                                                    *)
(***************************************************************************)
ProxyCalled == proxyConfiguration # NoProxyResult

Country == input.proxyConfiguration.apifyProxyCountry

\* the country option is given and its upper-cased form is not in the recognised set
CountryRejected == Truthy(Country) /\ ToUpperCase(Country) \notin VALID_COUNTRY_CODES

InvalidCountryError == [status |-> "throws", error |-> "Invalid country code"]

\* C12 as stated: a country code outside the recognised set fails with the
\* invalid-country error and zero calls to the issuer; a recognised code in
\* any letter case succeeds and is forwarded upper-cased in exactly one call.
C12_CountryValidation ==
    (ProxyCalled /\ Truthy(Country)) =>
        IF ToUpperCase(Country) \notin VALID_COUNTRY_CODES
        THEN proxyConfiguration = InvalidCountryError /\ issuerCalls = <<>>
        ELSE /\ proxyConfiguration.status # "throws"
             /\ Len(issuerCalls) = 1
             /\ issuerCalls[1].countryCode = ToUpperCase(Country)

\* C12 amended: a country code outside the recognised set fails with the
\* invalid-country error and zero calls to the issuer; a recognised code in
\* any letter case passes the validation, and it is forwarded upper-cased in
\* exactly one call when useApifyProxy is true or absent; when useApifyProxy
\* is false the call returns undefined and the issuer is not called.
C12_CountryValidationAmended ==
    (ProxyCalled /\ Truthy(Country)) =>
        IF ToUpperCase(Country) \notin VALID_COUNTRY_CODES
        THEN proxyConfiguration = InvalidCountryError /\ issuerCalls = <<>>
        ELSE IF input.proxyConfiguration.useApifyProxy = "false"
        THEN proxyConfiguration.status = "undefined" /\ issuerCalls = <<>>
        ELSE /\ proxyConfiguration.status \in {"handle", "issuerThrows"}
             /\ Len(issuerCalls) = 1
             /\ issuerCalls[1].countryCode = ToUpperCase(Country)
             /\ Country = << "u", "s" >> => issuerCalls[1].countryCode = << "U", "S" >>

\* "us" was given with the proxy left at its default: one call, with "US"
C12_Witness ==
    /\ input.proxyConfiguration = [EmptyOptions EXCEPT !.apifyProxyCountry = << "u", "s" >>]
    /\ issuerCalls = << [groups |-> << "RESIDENTIAL" >>, countryCode |-> << "U", "S" >>] >>
    /\ proxyConfiguration.status = "handle"

\* C13: when the configured country code is invalid (createProxyConfiguration
\* rejects it), the run fails before any work item is taken from the queue:
\* no request is ever queued or taken, no handler runs, the issuer is not
\* called and the Sink stays empty, whether or not useApifyProxy is enabled.
\* (Checked under SpecMain.)
C13_InvalidCountryFailsRun ==
    CountryRejected =>
        /\ runState \in {"starting", "failed"}
        /\ runState = "failed" => proxyConfiguration = InvalidCountryError
        /\ queue = <<>> /\ added = {} /\ taken = {}
        /\ \A c \in Ctx : pc[c] = "idle" /\ cur[c] = NoRequest
        /\ issuerCalls = <<>>
        /\ sink = <<>>

\* country "ZZ" with useApifyProxy = false: main has failed with the invalid-country error
C13_Witness ==
    /\ input.proxyConfiguration.apifyProxyCountry = << "Z", "Z" >>
    /\ input.proxyConfiguration.useApifyProxy = "false"
    /\ runState = "failed"
    /\ proxyConfiguration = InvalidCountryError

\* the officially assigned ISO 3166-1 alpha-2 codes
IsoAlpha2Codes ==
    {
      <<"A", "D">>, <<"A", "E">>, <<"A", "F">>, <<"A", "G">>, <<"A", "I">>, <<"A", "L">>,
      <<"A", "M">>, <<"A", "O">>, <<"A", "Q">>, <<"A", "R">>, <<"A", "S">>, <<"A", "T">>,
      <<"A", "U">>, <<"A", "W">>, <<"A", "X">>, <<"A", "Z">>, <<"B", "A">>, <<"B", "B">>,
      <<"B", "D">>, <<"B", "E">>, <<"B", "F">>, <<"B", "G">>, <<"B", "H">>, <<"B", "I">>,
      <<"B", "J">>, <<"B", "L">>, <<"B", "M">>, <<"B", "N">>, <<"B", "O">>, <<"B", "Q">>,
      <<"B", "R">>, <<"B", "S">>, <<"B", "T">>, <<"B", "V">>, <<"B", "W">>, <<"B", "Y">>,
      <<"B", "Z">>, <<"C", "A">>, <<"C", "C">>, <<"C", "D">>, <<"C", "F">>, <<"C", "G">>,
      <<"C", "H">>, <<"C", "I">>, <<"C", "K">>, <<"C", "L">>, <<"C", "M">>, <<"C", "N">>,
      <<"C", "O">>, <<"C", "R">>, <<"C", "U">>, <<"C", "V">>, <<"C", "W">>, <<"C", "X">>,
      <<"C", "Y">>, <<"C", "Z">>, <<"D", "E">>, <<"D", "J">>, <<"D", "K">>, <<"D", "M">>,
      <<"D", "O">>, <<"D", "Z">>, <<"E", "C">>, <<"E", "E">>, <<"E", "G">>, <<"E", "H">>,
      <<"E", "R">>, <<"E", "S">>, <<"E", "T">>, <<"F", "I">>, <<"F", "J">>, <<"F", "K">>,
      <<"F", "M">>, <<"F", "O">>, <<"F", "R">>, <<"G", "A">>, <<"G", "B">>, <<"G", "D">>,
      <<"G", "E">>, <<"G", "F">>, <<"G", "G">>, <<"G", "H">>, <<"G", "I">>, <<"G", "L">>,
      <<"G", "M">>, <<"G", "N">>, <<"G", "P">>, <<"G", "Q">>, <<"G", "R">>, <<"G", "S">>,
      <<"G", "T">>, <<"G", "U">>, <<"G", "W">>, <<"G", "Y">>, <<"H", "K">>, <<"H", "M">>,
      <<"H", "N">>, <<"H", "R">>, <<"H", "T">>, <<"H", "U">>, <<"I", "D">>, <<"I", "E">>,
      <<"I", "L">>, <<"I", "M">>, <<"I", "N">>, <<"I", "O">>, <<"I", "Q">>, <<"I", "R">>,
      <<"I", "S">>, <<"I", "T">>, <<"J", "E">>, <<"J", "M">>, <<"J", "O">>, <<"J", "P">>,
      <<"K", "E">>, <<"K", "G">>, <<"K", "H">>, <<"K", "I">>, <<"K", "M">>, <<"K", "N">>,
      <<"K", "P">>, <<"K", "R">>, <<"K", "W">>, <<"K", "Y">>, <<"K", "Z">>, <<"L", "A">>,
      <<"L", "B">>, <<"L", "C">>, <<"L", "I">>, <<"L", "K">>, <<"L", "R">>, <<"L", "S">>,
      <<"L", "T">>, <<"L", "U">>, <<"L", "V">>, <<"L", "Y">>, <<"M", "A">>, <<"M", "C">>,
      <<"M", "D">>, <<"M", "E">>, <<"M", "F">>, <<"M", "G">>, <<"M", "H">>, <<"M", "K">>,
      <<"M", "L">>, <<"M", "M">>, <<"M", "N">>, <<"M", "O">>, <<"M", "P">>, <<"M", "Q">>,
      <<"M", "R">>, <<"M", "S">>, <<"M", "T">>, <<"M", "U">>, <<"M", "V">>, <<"M", "W">>,
      <<"M", "X">>, <<"M", "Y">>, <<"M", "Z">>, <<"N", "A">>, <<"N", "C">>, <<"N", "E">>,
      <<"N", "F">>, <<"N", "G">>, <<"N", "I">>, <<"N", "L">>, <<"N", "O">>, <<"N", "P">>,
      <<"N", "R">>, <<"N", "U">>, <<"N", "Z">>, <<"O", "M">>, <<"P", "A">>, <<"P", "E">>,
      <<"P", "F">>, <<"P", "G">>, <<"P", "H">>, <<"P", "K">>, <<"P", "L">>, <<"P", "M">>,
      <<"P", "N">>, <<"P", "R">>, <<"P", "S">>, <<"P", "T">>, <<"P", "W">>, <<"P", "Y">>,
      <<"Q", "A">>, <<"R", "E">>, <<"R", "O">>, <<"R", "S">>, <<"R", "U">>, <<"R", "W">>,
      <<"S", "A">>, <<"S", "B">>, <<"S", "C">>, <<"S", "D">>, <<"S", "E">>, <<"S", "G">>,
      <<"S", "H">>, <<"S", "I">>, <<"S", "J">>, <<"S", "K">>, <<"S", "L">>, <<"S", "M">>,
      <<"S", "N">>, <<"S", "O">>, <<"S", "R">>, <<"S", "S">>, <<"S", "T">>, <<"S", "V">>,
      <<"S", "X">>, <<"S", "Y">>, <<"S", "Z">>, <<"T", "C">>, <<"T", "D">>, <<"T", "F">>,
      <<"T", "G">>, <<"T", "H">>, <<"T", "J">>, <<"T", "K">>, <<"T", "L">>, <<"T", "M">>,
      <<"T", "N">>, <<"T", "O">>, <<"T", "R">>, <<"T", "T">>, <<"T", "V">>, <<"T", "W">>,
      <<"T", "Z">>, <<"U", "A">>, <<"U", "G">>, <<"U", "M">>, <<"U", "S">>, <<"U", "Y">>,
      <<"U", "Z">>, <<"V", "A">>, <<"V", "C">>, <<"V", "E">>, <<"V", "G">>, <<"V", "I">>,
      <<"V", "N">>, <<"V", "U">>, <<"W", "F">>, <<"W", "S">>, <<"Y", "E">>, <<"Y", "T">>,
      <<"Z", "A">>, <<"Z", "M">>, <<"Z", "W">>
    }

\* C14: createProxyConfiguration fails on a present two-letter country code
\* if and only if the code, compared case-insensitively, is not an officially
\* assigned ISO 3166-1 alpha-2 code.
C14_ExactlyIsoCodes ==
    (ProxyCalled /\ Country # Undefined /\ Len(Country) = 2) =>
        (proxyConfiguration = InvalidCountryError <=> ToUpperCase(Country) \notin IsoAlpha2Codes)

\* C15 as stated: with useApifyProxy false the issuer is never called and the
\* call returns undefined; with useApifyProxy true or absent the issuer is
\* called exactly once with the configured groups (['RESIDENTIAL'] when none
\* are given) and with a countryCode field only when a country was supplied.
C15_ProxySwitch ==
    ProxyCalled =>
        IF input.proxyConfiguration.useApifyProxy = "false"
        THEN issuerCalls = <<>> /\ proxyConfiguration.status = "undefined"
        ELSE /\ Len(issuerCalls) = 1
             /\ issuerCalls[1].groups =
                    (IF input.proxyConfiguration.apifyProxyGroups = Undefined
                     THEN << "RESIDENTIAL" >>
                     ELSE input.proxyConfiguration.apifyProxyGroups)
             /\ issuerCalls[1].countryCode # Undefined => Country # Undefined
             /\ Truthy(Country) => issuerCalls[1].countryCode # Undefined

\* C15 amended: when the country option is absent or recognised, the call with
\* useApifyProxy false never calls the issuer and returns undefined, and the
\* call with useApifyProxy true or absent calls the issuer exactly once with
\* the configured groups (['RESIDENTIAL'] when none are given) and with a
\* countryCode field only when a country was supplied; when the country is
\* not recognised the call throws and the issuer is not called, whatever
\* useApifyProxy is.
C15_ProxySwitchAmended ==
    ProxyCalled =>
        IF CountryRejected
        THEN issuerCalls = <<>> /\ proxyConfiguration = InvalidCountryError
        ELSE IF input.proxyConfiguration.useApifyProxy = "false"
        THEN issuerCalls = <<>> /\ proxyConfiguration.status = "undefined"
        ELSE /\ Len(issuerCalls) = 1
             /\ issuerCalls[1].groups =
                    (IF input.proxyConfiguration.apifyProxyGroups = Undefined
                     THEN << "RESIDENTIAL" >>
                     ELSE input.proxyConfiguration.apifyProxyGroups)
             /\ issuerCalls[1].countryCode # Undefined => Country # Undefined
             /\ Truthy(Country) => issuerCalls[1].countryCode # Undefined

\* useApifyProxy = false without a country: undefined is returned and the
\* issuer was not called
C15_Witness ==
    /\ input.proxyConfiguration.useApifyProxy = "false"
    /\ input.proxyConfiguration.apifyProxyCountry = Undefined
    /\ proxyConfiguration.status = "undefined"
    /\ issuerCalls = <<>>

(***************************************************************************)
(* solveCaptcha without an API key (claim C16), under SpecCaptcha.         *)
(***************************************************************************)
\* C16: solveCaptcha called without an API key fails with 'Anti-Captcha API
\* key is required' before it reads anything from the page and with zero
\* calls to the solver.
C16_MissingKeyFailsFirst ==
    \A c \in Ctx :
        /\ (~input.antiCaptchaApiKey /\ cur[c] = CallRequest) =>
              /\ pageReads[c] = <<>>
              /\ solveLog[c] = <<>>
              /\ pc[c] \in {"solveEntry", "returned"}
              /\ pc[c] = "returned" =>
                    solveResult[c] = [status |-> "Anti-Captcha API key is required",
                                      token |-> 0, success |-> FALSE, attempts |-> 0]
        /\ solveResult[c].status = "Anti-Captcha API key is required" =>
              ~input.antiCaptchaApiKey /\ pageReads[c] = <<>> /\ solveLog[c] = <<>>

\* the call without a key has thrown; nothing was read and the solver was not called
C16_Witness ==
    \E c \in Ctx :
        /\ ~input.antiCaptchaApiKey
        /\ pc[c] = "returned"
        /\ solveResult[c].status = "Anti-Captcha API key is required"
        /\ pageReads[c] = <<>>
        /\ solveLog[c] = <<>>

(***************************************************************************)
(* scrollAndExtractReviews (claims C17, C18, C20 under SpecReviews, claim  *)
(* C19 under SpecDetailReviews).                                           *)
(***************************************************************************)
\* the dedup key of a review: the author and the first 50 characters of the text
PairKey(r) ==
    << IF r.author = NullString THEN <<>> ELSE r.author,
       IF r.text = NullString THEN <<>> ELSE SubSeq(r.text, 1, Min(50, Len(r.text))) >>

\* the entries of a review list that have the key of pool review i
EntriesWithKey(list, i) ==
    { k \in DOMAIN list : PairKey(ReviewPool[list[k]]) = PairKey(ReviewPool[i]) }

\* the limit a scrollAndExtractReviews call was given (100 when none was given)
GivenMaxReviews == IF input.maxReviews = Absent THEN 100 ELSE input.maxReviews

\* C17: a review whose (author, first 50 characters of text) equals that of a
\* review accumulated in an earlier round is not added again, and reviews with
\* an identical key across rounds collapse to one entry of the result.
C17_CrossRoundReviewDedup ==
    /\ [][\A c \in Ctx :
            (pc[c] = "reviewLoop" /\ cur'[c] = cur[c])
            => \A k \in (DOMAIN allReviews'[c]) \ (DOMAIN allReviews[c]) :
                  \A j \in DOMAIN allReviews[c] :
                      PairKey(ReviewPool[allReviews'[c][k]])
                          # PairKey(ReviewPool[allReviews[c][j]])]_vars
    /\ [](\A c \in Ctx : \A i \in ReviewIds :
            reviewHist[c].seen[i] >= 2 =>
                /\ Cardinality(EntriesWithKey(allReviews[c], i)) = 1
                /\ pc[c] = "returned" =>
                      Cardinality(EntriesWithKey(placeData[c].reviews, i)) = 1)

\* C18: for every maxReviews = m >= 0 and every sequence of rendered batches,
\* scrollAndExtractReviews returns at most m reviews, and they are the first m
\* accumulated reviews in accumulation order.
C18_ReviewsCap ==
    \A c \in Ctx :
        (pc[c] = "returned" /\ cur[c] = CallReviewsRequest) =>
            /\ Len(placeData[c].reviews) <= GivenMaxReviews
            /\ Len(placeData[c].reviews) = Min(GivenMaxReviews, Len(allReviews[c]))
            /\ \A k \in DOMAIN placeData[c].reviews :
                  placeData[c].reviews[k] = allReviews[c][k]

\* maxReviews = 1 and a first batch of two reviews: two were accumulated, the
\* first one alone is returned
C18_Witness ==
    \E c \in Ctx :
        /\ input.maxReviews = 1
        /\ pc[c] = "returned"
        /\ allReviews[c] = << 3, 1 >>
        /\ placeData[c].reviews = << 3 >>

\* C19: for every configured maxReviews = m >= 0, with includeReviews enabled,
\* the reviews list of every pushed PlaceRecord has at most m entries.
C19_RecordReviewsCap ==
    (input.includeReviews /\ input.maxReviews # Absent) =>
        \A i \in DOMAIN sink : Len(sink[i].reviews) <= input.maxReviews

\* C20: if 3 consecutive scroll rounds produce no new unique reviews and the
\* panel reports no further scroll distance, the loop stops and returns, even
\* though fewer than maxReviews reviews are accumulated: no further round runs.
C20_IdleTermination ==
    [][\A c \in Ctx :
        (/\ pc[c] = "reviewLoop"
         /\ reviewHist[c].idle >= 3
         /\ ~reviewHist[c].canScroll)
        => << allReviews'[c], previousReviewCount'[c], noNewReviewsCount'[c] >>
              = << allReviews[c], previousReviewCount[c], noNewReviewsCount[c] >>]_vars

(***************************************************************************)
(* extractPhotoUrls (claim C21), under SpecPhotoUrls.                      *)
(***************************************************************************)
\* the elements of the page that extractPhotoUrls turns into a photo, in document order
SeenPhotoElements == SelectSeq(PhotoElements(utilCall.arg), IsPhoto)

\* C21: elements whose sources rewrite to the same canonical url produce exactly one
\* entry of the result, and that entry has the thumbnail and alt of the first of them
C21_PhotoDedupKeepsFirst ==
    (utilCall.fn = "extractPhotoUrls" /\ utilReturn.status = "returned") =>
        \A k \in DOMAIN SeenPhotoElements :
            LET u == PhotoOf(SeenPhotoElements[k]).url
                first == CHOOSE m \in DOMAIN SeenPhotoElements :
                             /\ PhotoOf(SeenPhotoElements[m]).url = u
                             /\ \A n \in 1..(m - 1) : PhotoOf(SeenPhotoElements[n]).url # u
                entries == { n \in DOMAIN utilReturn.value : utilReturn.value[n].url = u }
            IN  /\ Cardinality(entries) = 1
                /\ \A n \in entries :
                       /\ utilReturn.value[n].thumbnail = PhotoSrc(SeenPhotoElements[first])
                       /\ utilReturn.value[n].alt = OrElse(SeenPhotoElements[first].alt, <<>>)

(***************************************************************************)
(* downloadPhotos (claims C22 and C30), under SpecDownload.                *)
(***************************************************************************)
DownloadReturned == utilCall.fn = "downloadPhotos" /\ utilReturn # NoReturn

\* the positions (from 1) of the input photos that were fetched with their body
FetchedPositions ==
    { k \in DOMAIN fetchCalls : fetchCalls[k].outcome \in { "setValueThrows", "ok" } }

\* the positions (from 1) of the input photos that were persisted, in input order
PersistedPositions ==
    LET Persisted(k) == fetchCalls[k].outcome = "ok"
    IN  SelectSeq([k \in DOMAIN fetchCalls |-> k], Persisted)

\* C22: downloadPhotos never raises; every photo of the input is fetched, in order,
\* whatever happened to the others; the blob store gets one put per fetched photo
\* and none for a failed one; the result is the persisted photos in input order
C22_FailedPhotoSkipped ==
    DownloadReturned =>
        /\ utilReturn.status = "returned"
        /\ Len(fetchCalls) = Len(utilCall.arg)
        /\ \A k \in DOMAIN fetchCalls : fetchCalls[k].url = utilCall.arg[k].url
        /\ Len(setValueCalls) = Cardinality(FetchedPositions)
        /\ Len(utilReturn.value) = Len(PersistedPositions)
        /\ \A n \in DOMAIN utilReturn.value :
               /\ utilReturn.value[n].url = utilCall.arg[PersistedPositions[n]].url
               /\ utilReturn.value[n].thumbnail = utilCall.arg[PersistedPositions[n]].thumbnail
               /\ utilReturn.value[n].alt = utilCall.arg[PersistedPositions[n]].alt

\* a call returned after a fetch that threw, a response that was not ok and a photo
\* that was stored after them
C22_Witness ==
    /\ DownloadReturned
    /\ Len(fetchCalls) = 3
    /\ fetchCalls[1].outcome = "fetchThrows"
    /\ fetchCalls[2].outcome = "notOk"
    /\ fetchCalls[3].outcome = "ok"
    /\ Len(utilReturn.value) = 1

\* C30: the key of every returned photo is photo-<placeId>-<i>, i the photo's index
\* (from 0) in the input list; no two returned photos share a key; the key of the
\* entry is the key of the put that stored it
C30_PhotoKeyByInputIndex ==
    DownloadReturned =>
        /\ \A n \in DOMAIN utilReturn.value :
               utilReturn.value[n].key =
                   << "p", "h", "o", "t", "o", "-" >> \o utilCall.placeId \o << "-" >>
                       \o ToDecimal(PersistedPositions[n] - 1)
        /\ \A m, n \in DOMAIN utilReturn.value :
               utilReturn.value[m].key = utilReturn.value[n].key => m = n
        /\ LET StoredPut(put) == put.ok
               puts == SelectSeq(setValueCalls, StoredPut)
           IN  /\ Len(puts) = Len(utilReturn.value)
               /\ \A n \in DOMAIN puts : puts[n].key = utilReturn.value[n].key

\* a call returned two photos, stored after a photo that failed
C30_Witness ==
    /\ DownloadReturned
    /\ Len(fetchCalls) = 3
    /\ fetchCalls[1].outcome = "notOk"
    /\ Len(utilReturn.value) = 2
    /\ utilCall.placeId = << "a", "-", "1" >>

(***************************************************************************)
(* extractEmails (claim C23), under SpecEmails.                            *)
(***************************************************************************)
EmailsReturned == utilCall.fn = "extractEmails" /\ utilReturn.status = "returned"

\* the addresses the pattern matches in the text, in order of appearance
MatchedEmails == IF Falsy(utilCall.arg) THEN <<>> ELSE EmailMatchesFrom(utilCall.arg, 1)

FirstOccurrence(list, x) == CHOOSE k \in DOMAIN list : list[k] = x /\ \A j \in 1..(k - 1) : list[j] # x

\* C23: the result holds every matched address exactly once, in the order of the first
\* occurrences; it is empty for a text without an address and for null, undefined, ''
C23_EmailsOnceInOrder ==
    EmailsReturned =>
        /\ Range(utilReturn.value) = Range(MatchedEmails)
        /\ \A m, n \in DOMAIN utilReturn.value :
               utilReturn.value[m] = utilReturn.value[n] => m = n
        /\ \A m, n \in DOMAIN utilReturn.value :
               m < n => FirstOccurrence(MatchedEmails, utilReturn.value[m])
                            < FirstOccurrence(MatchedEmails, utilReturn.value[n])
        /\ (Falsy(utilCall.arg) \/ ~Includes(utilCall.arg, << "@" >>)) => utilReturn.value = <<>>

\* 'a@b.co c@d.io a@b.co.x' returned as [a@b.co, c@d.io]
C23_Witness ==
    /\ EmailsReturned
    /\ utilCall.arg = << "a", "@", "b", ".", "c", "o", " ", "c", "@", "d", ".", "i", "o", " ", "a", "@", "b", ".", "c", "o", ".", "x" >>
    /\ utilReturn.value = << << "a", "@", "b", ".", "c", "o" >>,
                             << "c", "@", "d", ".", "i", "o" >> >>

(***************************************************************************)
(* extractSocialMediaLinks (claim C24), under SpecSocial.                  *)
(***************************************************************************)
SocialReturned == utilCall.fn = "extractSocialMediaLinks" /\ utilReturn.status = "returned"

MinOf(S) == CHOOSE m \in S : \A n \in S : m <= n

\* the positions of the links of the page that qualify for platform p
Qualifying(p) == { k \in DOMAIN utilCall.arg : PlatformOf(utilCall.arg[k]) = p }

\* C24: the url retained for a platform is the one of the first qualifying link in
\* document order
C24_FirstSocialLinkWins ==
    SocialReturned =>
        \A p \in PlatformNames :
            Qualifying(p) # {} =>
                /\ p \in DOMAIN utilReturn.value
                /\ utilReturn.value[p] = utilCall.arg[MinOf(Qualifying(p))].href

(***************************************************************************)
(* Failed enrichment pipelines in the pushed record (claim C25), under     *)
(* SpecDetail.                                                             *)
(***************************************************************************)
\* C25: in a pushed record the field of a failed pipeline is the pipeline's empty
\* default: reviews = [], photos = [], and a contactInfo that is not null
C25_FailedPipelineEmptyDefault ==
    \A k \in DOMAIN sink :
        /\ "reviews" \in audit[k].failed => sink[k].reviews = <<>>
        /\ "photos" \in audit[k].failed => sink[k].photos = <<>>
        /\ "contact" \in audit[k].failed => sink[k].contactInfo # "null"

(***************************************************************************)
(* The end of the review loop (claim C26), under SpecReviews.              *)
(***************************************************************************)
\* C26: the loop of scrollAndExtractReviews ends only with maxReviews reviews
\* accumulated, or with the idle counter at 3 and a panel that reported no further
\* scrollable distance
C26_LoopEndsOnlyWhenExhausted ==
    [][\A c \in Ctx :
        (pc[c] = "reviewLoop" /\ pc'[c] \in { "returned", "photos" })
        => \/ Len(allReviews'[c]) >= maxReviews'[c]
           \/ /\ noNewReviewsCount'[c] >= maxNoNewReviews
              /\ ~reviewHist'[c].canScroll]_vars

(***************************************************************************)
(* Where the handler calls detectCaptcha (claims C27 and C28), under       *)
(* SpecDetail.                                                             *)
(***************************************************************************)
\* C27: once solveCaptcha has returned a token, the item goes on to search or
\* extraction only after detectCaptcha has been called a second time
C27_RecheckAfterSolve ==
    \A c \in Ctx :
        (/\ solveResult[c].status = "ok"
         /\ pc[c] \notin { "idle", "captcha", "solveEntry", "solve", "returned" })
        => enrich[c].checks >= 2

\* C28: in a DETAIL item detectCaptcha has been called at least once for every
\* enrichment step that has started
C28_CheckBeforeEachStep ==
    \A c \in Ctx :
        cur[c].label = "DETAIL" => enrich[c].checks >= Len(enrich[c].ran)

(***************************************************************************)
(* The delays between the attempts of solveCaptcha (claim C29), under      *)
(* SpecCaptchaRetries.                                                     *)
(***************************************************************************)
\* C29: the wait after the k-th failed attempt, k < maxRetries, is k * 2000 ms;
\* there is no wait after the last failed attempt and none after a success
C29_LinearBackoff ==
    \A c \in Ctx :
        \A k \in DOMAIN solveLog[c] :
            solveLog[c][k].wait =
                IF solveLog[c][k].resp.kind # "token" /\ k < ConfiguredRetries
                THEN k * 2000 ELSE 0

\* maxRetries = 4 and four failed attempts: waits of 2000, 4000, 6000, then none
C29_Witness ==
    \E c \in Ctx :
        /\ input.maxRetries = 4
        /\ Len(solveLog[c]) = 4
        /\ \A k \in 1..4 : solveLog[c][k].resp.kind # "token"
        /\ solveLog[c][3].wait = 6000
        /\ solveLog[c][4].wait = 0

(***************************************************************************)
(* The secondary page of the contact step (claim C31), under SpecDetail.   *)
(***************************************************************************)
\* C31: when a DETAIL item is about to push its record and complete, the website
\* page its contact step opened is not open any more
C31_SitePageClosed ==
    \A c \in Ctx : pc[c] = "push" => enrich[c].sitePage # "open"

(***************************************************************************)
(* The order of the enrichment steps (claim C32), under SpecDetail.        *)
(***************************************************************************)
StepOrder == << "reviews", "photos", "contact" >>

\* the steps that have to run for a record with the given base data
StepsToRun(base) ==
    LET Runs(step) == \/ step = "reviews" /\ input.includeReviews
                      \/ step = "photos" /\ input.downloadPhotos
                      \/ step = "contact" /\ input.extractContactInfo /\ base.website # Null
    IN  SelectSeq(StepOrder, Runs)

\* C32: the steps that ran for a pushed record are the enabled ones, in the order
\* reviews, photos, contact (contact only with a website); the field of a step that
\* did not run is unset; a step starts only when the step before it has set its field
C32_StepsInOrder ==
    /\ [](\A k \in DOMAIN sink :
            /\ audit[k].ran = StepsToRun(audit[k].base)
            /\ "reviews" \notin Range(audit[k].ran) <=> sink[k].reviews = Unset
            /\ "photos" \notin Range(audit[k].ran) <=> sink[k].photos = Unset
            /\ "contact" \notin Range(audit[k].ran) <=> sink[k].contactInfo = "unset")
    /\ [][\A c \in Ctx :
            (cur[c].label = "DETAIL" /\ cur'[c] = cur[c]
                /\ Len(enrich'[c].ran) > Len(enrich[c].ran))
            => /\ Len(enrich'[c].ran) = Len(enrich[c].ran) + 1
               /\ pc[c] # "reviewLoop"
               /\ "reviews" \in Range(enrich[c].ran) => placeData[c].reviews # Unset
               /\ "photos" \in Range(enrich[c].ran) => placeData[c].photos # Unset]_vars

\* a record was pushed for which the three steps ran
C32_Witness ==
    \E k \in DOMAIN sink :
        /\ audit[k].ran = StepOrder
        /\ sink[k].reviews # Unset /\ sink[k].photos # Unset /\ sink[k].contactInfo # "unset"

(***************************************************************************)
(* The candidate rules of base extraction (claim C33), under SpecBase.     *)
(***************************************************************************)
\* what candidate rule k of the field yields on the page: <<>> when it yields nothing
RuleYield(k) ==
    LET found == utilCall.arg[k]
    IN  IF utilCall.field = "rating"
        THEN IF found.present /\ RatingOf(found) # NullString THEN RatingOf(found) ELSE <<>>
        ELSE IF Falsy(found) THEN <<>>
        ELSE IF utilCall.field = "website" THEN found
        ELSE Trim(found)

\* C33: the value of a field is what the first rule with a non-empty yield yields,
\* and null only when no rule of the field yields anything
C33_FirstNonEmptyRule ==
    (utilCall.fn = "basicData" /\ utilReturn.status = "returned") =>
        LET yielding == { k \in DOMAIN utilCall.arg : RuleYield(k) # <<>> }
        IN  IF yielding = {} THEN utilReturn.value = NullString
            ELSE utilReturn.value = RuleYield(MinOf(yielding))

(***************************************************************************)
(* Reviews without author and text (claim C34), under SpecReviewData.      *)
(***************************************************************************)
HasContent(found) == ~Falsy(found) /\ \E k \in DOMAIN found : found[k] # " "

\* the elements of the page that extractReviewData has to keep, in page order
KeptElements ==
    LET Kept(element) ==
            ~element.throws /\ (HasContent(element.author) \/ HasContent(element.text))
    IN  SelectSeq(utilCall.arg, Kept)

\* C34: extractReviewData returns one review per element that did not throw and has
\* an author or a text, in page order, and no review without both; the reviews
\* scrollAndExtractReviews returns all have an author or a text
C34_NoEmptyReview ==
    /\ (utilCall.fn = "extractReviewData" /\ utilReturn.status = "returned") =>
          /\ Len(utilReturn.value) = Len(KeptElements)
          /\ \A n \in DOMAIN utilReturn.value :
                /\ utilReturn.value[n].author # NullString
                       \/ utilReturn.value[n].text # NullString
                /\ utilReturn.value[n].author # <<>> /\ utilReturn.value[n].text # <<>>
                /\ HasContent(KeptElements[n].author) =>
                       utilReturn.value[n].author = Trim(KeptElements[n].author)
                /\ HasContent(KeptElements[n].text) =>
                       utilReturn.value[n].text = Trim(KeptElements[n].text)
    /\ \A c \in Ctx :
          pc[c] = "returned" =>
              \A n \in DOMAIN placeData[c].reviews :
                  \/ ~Falsy(ReviewPool[placeData[c].reviews[n]].author)
                  \/ ~Falsy(ReviewPool[placeData[c].reviews[n]].text)

\* a page with an element that throws and a complete review returned that review
\* alone
C34_Witness ==
    /\ utilCall.fn = "extractReviewData" /\ utilReturn.status = "returned"
    /\ Len(utilCall.arg) = 2
    /\ utilCall.arg[1].throws
    /\ utilReturn.value = << [author |-> << "B" >>, text |-> << "y" >>] >>

(***************************************************************************)
(* Termination of the review loop (claim C35), under FairSpecReviews.      *)
(***************************************************************************)
\* C35: whatever batches the page renders and whatever it answers about
\* scrollability, a scrollAndExtractReviews call that entered its loop returns
C35_ReviewLoopTerminates ==
    \A c \in Ctx : (pc[c] = "reviewLoop") ~> (pc[c] = "returned")

(***************************************************************************)
(* DETAIL items only after discovery (claim C36), under SpecSearch.        *)
(***************************************************************************)
\* C36: a SEARCH item that has not left its CAPTCHA check and its discovery loop
\* has enqueued no DETAIL item, and when it fails there it never enqueued any;
\* a DETAIL item is added only by a SEARCH item whose loop condition has turned
\* false, and every DETAIL item of the queue was added that way
C36_EnqueueAfterDiscovery ==
    /\ [](\A c \in Ctx :
            (cur[c].label = "SEARCH" /\ pc[c] # "enqueue") => DetailsOf(cur[c].id) = {})
    /\ [](\A k \in DOMAIN queue : queue[k].label = "DETAIL" => queue[k] \in added)
    /\ [][/\ \A r \in added' \ added :
                /\ r.label = "DETAIL"
                /\ \E c \in Ctx :
                      /\ cur[c].label = "SEARCH" /\ cur[c].id = r.parent
                      /\ pc[c] = "enqueue"
                      /\ ~KeepScrolling(places[c], scrollAttempts[c])
                      /\ r.url \in Range(ToEnqueue(places[c]))
          /\ \A c \in Ctx :
                (/\ cur[c].label = "SEARCH" /\ pc[c] # "enqueue"
                 /\ cur'[c] = NoRequest)
                => { r \in added' : r.parent = cur[c].id } = {}]_vars

\* a DETAIL item is in the queue, enqueued by a SEARCH item that ran at least one
\* discovery round and is still enqueueing
C36_Witness ==
    \E c \in Ctx :
        /\ cur[c].label = "SEARCH" /\ pc[c] = "enqueue"
        /\ scrollAttempts[c] >= 1
        /\ \E k \in DOMAIN queue : queue[k].label = "DETAIL" /\ queue[k].parent = cur[c].id

(***************************************************************************)
(* Unique keys in the returned reviews (claim C37), under SpecReviews.     *)
(***************************************************************************)
\* C37: the list scrollAndExtractReviews returns holds no two reviews with the same
\* (author, first 50 characters of text)
C37_ReturnedKeysUnique ==
    \A c \in Ctx :
        pc[c] = "returned" =>
            \A j, k \in DOMAIN placeData[c].reviews :
                j # k => PairKey(ReviewPool[placeData[c].reviews[j]])
                            # PairKey(ReviewPool[placeData[c].reviews[k]])

(***************************************************************************)
(* Reviews with different keys are kept apart (claim C38), under           *)
(* SpecReviewKeys.                                                         *)
(***************************************************************************)
\* C38: whatever has been accumulated, the filter of a round keeps every rendered
\* review whose (author, first 50 characters of text) differs from that of every
\* accumulated review
C38_DistinctKeysNotMerged ==
    \A c \in Ctx :
        pc[c] = "reviewLoop" =>
            \A batch \in HyphenReviewBatches : \A n \in DOMAIN batch :
                (\A k \in DOMAIN allReviews[c] :
                      PairKey(ReviewPool[allReviews[c][k]]) # PairKey(ReviewPool[batch[n]]))
                => batch[n] \in Range(NewReviews(allReviews[c], batch))

(***************************************************************************)
(* Blob-store keys across the items of a run (claim C39), under SpecBlobs. *)
(***************************************************************************)
KeysOf(item) ==
    { downloads[item].storedPhotos[k].key : k \in DOMAIN downloads[item].storedPhotos }

\* C39: the photos of two different items never reference the same key of the
\* store, and a blob written for one item is never replaced by another item's
C39_BlobKeysDisjoint ==
    /\ [](\A i, j \in Items : i # j => KeysOf(i) \cap KeysOf(j) = {})
    /\ [][\A k \in DOMAIN blobStore : blobStore'[k].item = blobStore[k].item]_vars

====
